---- MODULE Spec2Model ----
(***************************************************************************)
(* The ScreenshotOCR queue pipeline: the OCR stage (OCRProcessor and       *)
(* EnhancedOCRProcessor), the Text-Analysis stage (TextAnalyzer) and the   *)
(* Storage stage (StorageProcessor), connected by the Redis lists          *)
(* ocr_queue, text_analysis_queue and storage_queue.                       *)
(***************************************************************************)
EXTENDS Integers, Sequences, FiniteSets, TLC

\* ------------------------------------------------------------------ bounds
\* Number of messages producers put on the queues in one behaviour.
MaxJobs == 2
\* Number of faults of the environment in one behaviour: a stage process
\* killed, a Redis call (brpop, lpush) raising, the database insert raising.
MaxFaults == 1

\* ------------------------------------------------------- program constants
\* asyncio.sleep(5) in the except branch of every processing_loop.
SleepSeconds == 5

\* ---------------------------------------------------------- stage instances
OCRStage == {"o1", "o2"}
TextStage == {"t1"}
StorageStage == {"s1", "s2"}
Instances == OCRStage \cup TextStage \cup StorageStage

\* The input queue each stage instance polls with brpop.
InputQueue(i) ==
    IF i \in OCRStage THEN "ocr_queue"
    ELSE IF i \in TextStage THEN "text_analysis_queue"
    ELSE "storage_queue"

QueueNames == {"ocr_queue", "text_analysis_queue", "storage_queue"}

\* EnhancedOCRProcessor.__init__: which AI keys the deployment sets (at least
\* one of them, or the constructor raises).
gemini_api_key == [i \in OCRStage |-> i = "o1"]
openai_api_key == [i \in OCRStage |-> TRUE]

\* ------------------------------------------------------------------- values
\* Optional values: None is <<>>, a present value v is <<v>>.
None == <<>>
Some(v) == <<v>>
IsNone(o) == o = <<>>

\* Texts are sequences of characters.  Nul stands for chr(0), a control
\* character that is neither whitespace nor printable.
Nul == "<NUL>"
Whitespace == {" ", "\n"}
EmptyText == <<>>

\* `not text.strip()`: the text has no non-whitespace character.
IsBlank(t) == \A k \in 1..Len(t) : t[k] \in Whitespace

\* The text holds an apostrophe / a double quote.
HasApostrophe(t) == \E k \in 1..Len(t) : t[k] = "'"
HasDoubleQuote(t) == \E k \in 1..Len(t) : t[k] = "\""

\* str.strip(): drop leading and trailing whitespace.
RECURSIVE LStrip(_)
LStrip(t) == IF t # <<>> /\ Head(t) \in Whitespace THEN LStrip(Tail(t)) ELSE t
RECURSIVE RStrip(_)
RStrip(t) ==
    IF t # <<>> /\ t[Len(t)] \in Whitespace
    THEN RStrip(SubSeq(t, 1, Len(t) - 1)) ELSE t
Strip(t) == RStrip(LStrip(t))

\* ' '.join(text.split()): runs of whitespace collapse to one space, trimmed.
RECURSIVE Collapse(_)
Collapse(t) ==
    IF t = <<>> THEN <<>>
    ELSE IF Head(t) \in Whitespace
         THEN IF Tail(t) # <<>> /\ Head(Tail(t)) \in Whitespace
              THEN Collapse(Tail(t))
              ELSE <<" ">> \o Collapse(Tail(t))
         ELSE <<Head(t)>> \o Collapse(Tail(t))
JoinSplit(t) == Strip(Collapse(t))

\* The replace() table of post_process_text.
\* A table that also rewrites a letter.
Substitute_Letter(c) ==
    IF c = "|" THEN "I" ELSE IF c = "0" THEN "O" ELSE IF c = "5" THEN "S"
    ELSE IF c = "a" THEN "A" ELSE c
Substitute(c) ==
    IF c = "|" THEN "I" ELSE IF c = "0" THEN "O" ELSE IF c = "5" THEN "S" ELSE c

\* Characters str.isprintable() rejects.
NonPrintable == {Nul, "\n"}

\* EnhancedOCRProcessor.post_process_text
post_process_text(t) ==
    IF t = <<>> THEN t
    ELSE LET joined == JoinSplit(t)
             fixed == [k \in 1..Len(joined) |-> Substitute(joined[k])]
             kept == SelectSeq(fixed, LAMBDA c : c \notin NonPrintable)
         IN  Strip(kept)

\* len(text.split())
WordCount(t) ==
    LET s == JoinSplit(t)
    IN  IF s = <<>> THEN 0
        ELSE 1 + Cardinality({k \in 1..Len(s) : s[k] \in Whitespace})

\* --------------------------------------------------------------- file system
\* What cv2.imread and the OCR engine make of a file: an image showing text,
\* an image showing no text, or bytes that do not decode as an image.
TextImage == "text_image"
BlankImage == "blank_image"
Corrupt == "corrupt"

PathText == "uploads/text.png"
PathBlank == "uploads/blank.png"
PathCorrupt == "uploads/corrupt.png"
PathGone == "uploads/gone.png"
PathApostrophe == "uploads/o'neil.png"

\* File names that hold an apostrophe.
ApostrophePaths == {PathApostrophe}

InitialFiles ==
    [p \in {PathText, PathBlank, PathCorrupt, PathApostrophe} |->
        IF p = PathBlank THEN BlankImage
        ELSE IF p = PathCorrupt THEN Corrupt ELSE TextImage]

\* ------------------------------------------------------------ wire encoding
\* A queue element is a string; it is modelled by how it was produced (enc) and
\* the key/value map it was produced from (body).  enc is "json" for
\* json.dumps(job), "pystr" for str(job), "garbage" for anything else.
\* dict.get(key): None when the key is absent or null.
Get(body, key) == IF key \in DOMAIN body THEN body[key] ELSE None

\* The map holds a null value (json null / Python None).
HasNull(body) == \E k \in DOMAIN body : body[k] = None

\* Some string value of the map holds an apostrophe / a double quote.
ValueHasApostrophe(k, v) ==
    IF k = "file_path" THEN v \in ApostrophePaths
    ELSE IF k = "direct_text" THEN HasApostrophe(v)
    ELSE FALSE
ValueHasDoubleQuote(k, v) ==
    IF k = "direct_text" THEN HasDoubleQuote(v) ELSE FALSE
BodyHasApostrophe(body) ==
    \E k \in DOMAIN body : body[k] # None /\ ValueHasApostrophe(k, body[k][1])
BodyHasDoubleQuote(body) ==
    \E k \in DOMAIN body : body[k] # None /\ ValueHasDoubleQuote(k, body[k][1])

\* json.loads(job_json.replace("'", '"')) of the OCR and Text-Analysis loops
\* returns a value: every apostrophe of the payload becomes a double quote, so
\* json.dumps output parses unless a string held an apostrophe, and str(dict)
\* output parses unless it held None or a string with a quote character.
LooseParses(w) ==
    IF w.enc = "json" THEN ~BodyHasApostrophe(w.body)
    ELSE IF w.enc = "pystr"
         THEN ~HasNull(w.body) /\ ~BodyHasApostrophe(w.body)
              /\ ~BodyHasDoubleQuote(w.body)
         ELSE FALSE

\* json.loads(job_json) of the Storage loop returns a value.
StrictParses(w) == w.enc = "json"

\* The parse the loop of stage instance i applies to a popped payload.
Parses(i, w) == IF i \in StorageStage THEN StrictParses(w) ELSE LooseParses(w)

Garbage == [enc |-> "garbage", body |-> [raw |-> None]]

\* ------------------------------------------------------------ producer input
\* ocr_queue payloads: json.dumps(job_data) of post_clipboard_image and
\* batch_upload, str(job_data) of upload_screenshot.  ImagePayloads name files
\* that decode; BadImagePayloads name a file that does not decode, a file that is
\* gone, no file at all, or do not parse (str of a dict holding None);
\* UserImagePayloads carry the user_id form field of post_clipboard_image.
OCRJob(path, user) ==
    [enc |-> "json",
     body |-> [file_path |-> path, timestamp |-> Some(1), user_id |-> user,
               folder_id |-> None]]
ScreenshotJob(ts) ==
    [enc |-> "pystr", body |-> [file_path |-> Some(PathText), timestamp |-> ts]]
ImagePayloads ==
    {OCRJob(Some(p), None) : p \in {PathText, PathBlank}}
BadImagePayloads ==
    {OCRJob(Some(PathCorrupt), None), OCRJob(Some(PathGone), None),
     OCRJob(None, Some(7)), ScreenshotJob(None)}
UserImagePayloads == {OCRJob(Some(PathText), Some(7))}

\* text_analysis_queue payloads: json.dumps(job_data) of post_clipboard_text
\* (user_id is the optional int form field: absent, or any int the client sends,
\* 0 included), and payloads of other producers (blank, null or absent
\* direct_text, not JSON).
TextJob(text) ==
    [enc |-> "json",
     body |-> [direct_text |-> text, user_id |-> None, folder_id |-> Some(3),
               language |-> Some("auto"), file_path |-> Some("uploads/clip.txt")]]
TextPayloads ==
    {TextJob(Some(<<" ">>)), TextJob(Some(<<" ", "a">>)),
     [enc |-> "json", body |-> [user_id |-> Some(7)]],
     [TextJob(Some(<<"a">>)) EXCEPT !.body.user_id = Some(0)]}
BadTextPayloads ==
    {TextJob(Some(<<"'">>)), TextJob(None)}

\* storage_queue payloads of producers other than the stages: text that is not
\* JSON, and a storage job without user_id.
ForeignStoragePayloads ==
    {Garbage,
     [enc |-> "json",
      body |-> [ocr_text |-> Some(<<"a">>), ai_response |-> Some("AI analysis")]]}

\* The producers of one run.  A push is a pair <<queue, payload>>.
Feeds == {"images", "bad_images", "user_images", "clipboard", "bad_clipboard",
          "storage"}
Pushes(f) ==
    IF f = "images" THEN {<<"ocr_queue", w>> : w \in ImagePayloads}
    ELSE IF f = "bad_images" THEN {<<"ocr_queue", w>> : w \in BadImagePayloads}
    ELSE IF f = "user_images" THEN {<<"ocr_queue", w>> : w \in UserImagePayloads}
    ELSE IF f = "clipboard" THEN {<<"text_analysis_queue", w>> : w \in TextPayloads}
    ELSE IF f = "bad_clipboard"
         THEN {<<"text_analysis_queue", w>> : w \in BadTextPayloads}
    ELSE {<<"storage_queue", w>> : w \in ForeignStoragePayloads}

\* The feeds that put jobs on ocr_queue.
ImageFeeds == {"images", "bad_images", "user_images"}

\* ------------------------------------------------------------------- state
VARIABLES
    feed,       \* the producers of this run
    ocr_impl,   \* the OCR service this deployment runs: "enhanced" or "basic"
    queues,     \* the three Redis lists; index 1 is the head (lpush side)
    files,      \* the upload directory: path -> content
    db,         \* rows of table responses, in insertion order
    pc,         \* per stage instance: Idle, Processing, Publishing, BackoffSleep
    cur,        \* per stage instance: the popped message it is processing
    res,        \* per stage instance: the results process_job holds before storing
    timer,      \* per stage instance: seconds of backoff sleep left
    intake,     \* number of messages producers have pushed
    faults,     \* number of faults of the environment so far
    popCount,   \* history: message identity -> number of times it was popped
    published,  \* history: input message identity -> storage_queue messages derived from it
    aiCalls,    \* history: calls made to the AI services
    log,        \* history: the logger.error / logger.warning lines, as <<mid, line>>
    loopErrors, \* history: number of entries into the except branch of a processing_loop
    call        \* a call of one function on its own: its name, argument and result

vars == <<feed, ocr_impl, queues, files, db, pc, cur, res, timer, intake, faults,
          popCount, published, aiCalls, log, loopErrors, call>>

\* The class the OCR stage instances run: enhanced_ocr_processor.main starts
\* EnhancedOCRProcessor, processor.ProcessorService starts OCRProcessor.
IsEnhanced(i) == i \in OCRStage /\ ocr_impl = "enhanced"
IsBasic(i) == i \in OCRStage /\ ocr_impl = "basic"

NoJob == [mid |-> <<>>]
NoRes == [none |-> TRUE]

\* f with the count at key k raised by one (absent keys count 0).
Count(f, k) == IF k \in DOMAIN f THEN f[k] ELSE 0
Bump(f, k) == [x \in DOMAIN f \cup {k} |-> IF x = k THEN Count(f, k) + 1 ELSE f[x]]

\* redis lpush / the element brpop takes and what it leaves.
\* A push at the end the consumer pops from (rpush).
LPush_Tail(q, m) == q \o <<m>>
LPush(q, m) == <<m>> \o q
Tail1(q) == q[Len(q)]
\* A pop that returns the tail element and leaves it on the list.
Front_Keep(q) == q
Front(q) == SubSeq(q, 1, Len(q) - 1)

\* logger.error / logger.warning writes a line about the job with identity mid.
Logged(l, mid, line) == l \cup {<<mid, line>>}

\* A queue element: the payload w, and as history the producer's job it derives
\* from (src), the queue that job was pushed onto (origin) and the element's
\* identity (mid): the job and the queue the element was pushed onto.
Message(src, origin, q, w) ==
    [mid |-> <<src, q>>, src |-> src, origin |-> origin, w |-> w]

\* No function is called on its own while the pipeline runs.
NoCall == [fn |-> "none"]

InitPipeline ==
    /\ feed \in Feeds
    /\ ocr_impl \in IF feed \in ImageFeeds THEN {"enhanced", "basic"} ELSE {"enhanced"}
    /\ queues = [q \in QueueNames |-> <<>>]
    /\ files = InitialFiles
    /\ db = <<>>
    /\ pc = [i \in Instances |-> "Idle"]
    /\ cur = [i \in Instances |-> NoJob]
    /\ res = [i \in Instances |-> NoRes]
    /\ timer = [i \in Instances |-> 0]
    /\ intake = 0
    /\ faults = 0
    /\ popCount = [x \in {} |-> 0]
    /\ published = [x \in {} |-> 0]
    /\ aiCalls = {}
    /\ log = {}
    /\ loopErrors = 0

Init == InitPipeline /\ call = NoCall

\* A producer pushes one payload onto a queue (redis_client.lpush).
Enqueue(q, w) ==
    /\ intake < MaxJobs
    /\ <<q, w>> \in Pushes(feed)
    /\ queues' = [queues EXCEPT ![q] = LPush(@, Message(intake + 1, q, q, w))]
    /\ intake' = intake + 1
    /\ UNCHANGED <<call, feed, ocr_impl, files, db, pc, cur, res, timer, faults, popCount, published, aiCalls,
                   log, loopErrors>>

\* ------------------------------------------------------------ the poll loop
\* The except branch of processing_loop: log, then asyncio.sleep(5).  The job of
\* the iteration, if one was popped, is a local of the try block and is gone.
\* A loop-level handler that logs and polls again at once.
LoopErrorPc_NoSleep == "Idle"
LoopErrorPc == "BackoffSleep"
\* A handler that keeps the job of the failed iteration in hand.
LoopErrorJob_Keep(m) == m
LoopErrorJob(m) == NoJob

\* The seconds the loop sleeps on its way to state p.
SleepFor(p) == IF p = "BackoffSleep" THEN SleepSeconds ELSE 0

\* What a payload that does not parse leaves on its queue: nothing is pushed back.
\* A loop that pushes the payload it could not parse back onto its queue.
AfterParseFailure_Requeue(q, m) == LPush(q, m)
AfterParseFailure(q, m) == q

\* Where a parse failure takes the loop: the OCR and Text-Analysis loops parse
\* inside the outer try (the loop-level handler sleeps); the Storage loop
\* catches json.JSONDecodeError in its inner try and polls again.
ParseFailurePc(i) == IF i \in StorageStage THEN "Idle" ELSE LoopErrorPc

\* The entries into the loop-level handler one parse failure makes.
ParseLoopErrors(i) == IF i \in StorageStage THEN 0 ELSE 1

\* Where brpop returning None (timeout, nothing to pop) takes the loop.
\* A loop that treats the timeout as an error and backs off.
TimeoutPc_Backoff == "BackoffSleep"
TimeoutPc == "Idle"

\* brpop raises (the queue transport is unreachable).
PopFails(i) ==
    /\ pc[i] = "Idle"
    /\ pc' = [pc EXCEPT ![i] = LoopErrorPc]
    /\ timer' = [timer EXCEPT ![i] = SleepFor(LoopErrorPc)]
    /\ faults < MaxFaults
    /\ faults' = faults + 1
    /\ log' = Logged(log, NoJob.mid, "loop_error")
    /\ loopErrors' = loopErrors + 1
    /\ UNCHANGED <<call, feed, ocr_impl, queues, files, db, cur, res, intake, popCount,
                   published, aiCalls>>

\* brpop returns None after its timeout: `if job_data:` is false.
PopTimesOut(i) ==
    /\ pc[i] = "Idle"
    /\ queues[InputQueue(i)] = <<>>
    /\ pc' = [pc EXCEPT ![i] = TimeoutPc]
    /\ timer' = [timer EXCEPT ![i] = SleepFor(TimeoutPc)]
    /\ UNCHANGED <<call, feed, ocr_impl, queues, files, db, cur, res, intake, faults,
                   popCount, published, aiCalls,
                   log, loopErrors>>

\* brpop returns the tail element; the loop parses it.
PopJob(i) ==
    /\ pc[i] = "Idle"
    /\ queues[InputQueue(i)] # <<>>
    /\ LET q == InputQueue(i)
           m == Tail1(queues[q])
       IN  /\ popCount' = Bump(popCount, m.mid)
           /\ IF Parses(i, m.w)
              THEN /\ queues' = [queues EXCEPT ![q] = Front(@)]
                   /\ pc' = [pc EXCEPT ![i] = "Processing"]
                   /\ cur' = [cur EXCEPT ![i] = m]
                   /\ timer' = timer
                   /\ UNCHANGED <<log, loopErrors>>
              ELSE /\ queues' = [queues EXCEPT ![q] = AfterParseFailure(Front(@), m)]
                   /\ pc' = [pc EXCEPT ![i] = ParseFailurePc(i)]
                   /\ cur' = [cur EXCEPT ![i] = LoopErrorJob(m)]
                   /\ timer' = [timer EXCEPT ![i] = SleepFor(ParseFailurePc(i))]
                   /\ log' = Logged(log, m.mid, "json_error")
                   /\ loopErrors' = loopErrors + ParseLoopErrors(i)
    /\ UNCHANGED <<call, feed, ocr_impl, files, db, res, intake, faults, published, aiCalls>>

\* A sleep that never returns.
Wake_Never(i) ==
    /\ pc[i] = "BackoffSleep"
    /\ UNCHANGED vars

\* asyncio.sleep(5) returns and `while True` starts the next iteration.
Wake(i) ==
    /\ pc[i] = "BackoffSleep"
    /\ pc' = [pc EXCEPT ![i] = "Idle"]
    /\ timer' = [timer EXCEPT ![i] = 0]
    /\ UNCHANGED <<call, feed, ocr_impl, queues, files, db, cur, res, intake, faults,
                   popCount, published, aiCalls,
                   log, loopErrors>>

\* ------------------------------------------------------ quality assessment
\* ImageQualityMetrics values are modelled times Scale = 5 * 127, so that the
\* division by 127 of the brightness score and the division by 5 of the mean
\* are exact.
Scale == 635
Abs(x) == IF x < 0 THEN 0 - x ELSE x
Min(a, b) == IF a < b THEN a ELSE b
Max(a, b) == IF a > b THEN a ELSE b

\* What cv2 and numpy measure on an image: the variance of the Laplacian
\* (sharpness), the standard deviation (contrast) and the mean (brightness) of
\* the gray levels, the variance of the denoised image as a percentage of the
\* variance of the image (noise), the percentage of edge pixels (edges), and
\* whether one of the calls raises.
\* A uniform image (all black, all white, a single pixel) has contrast 0, no
\* edges and a flat Laplacian; only a uniform image has mean 0 or 255.
Uniform(image) == image.contrast = 0
Images ==
    {image \in [sharpness : {0, 40, 400}, contrast : {0, 20, 80},
                brightness : {0, 127, 200, 255}, noise : {0, 50, 150},
                edges : {0, 10, 30}, raises : BOOLEAN] :
        /\ Uniform(image) =>
              image.sharpness = 0 /\ image.edges = 0 /\ image.noise = 0
        /\ image.brightness \in {0, 255} => Uniform(image)}

\* `except Exception: return ImageQualityMetrics(50, 50, 50, 50, 50, 50)`.
\* A handler that returns zeros.
NeutralMetrics_Zero ==
    [sharpness |-> 0, contrast |-> 0, brightness |-> 0, noise_level |-> 0,
     text_density |-> 0, overall_score |-> 0]
NeutralMetrics ==
    [sharpness |-> 50 * Scale, contrast |-> 50 * Scale, brightness |-> 50 * Scale,
     noise_level |-> 50 * Scale, text_density |-> 50 * Scale,
     overall_score |-> 50 * Scale]

\* assess_image_quality.  For a uniform image gray.var() is 0 and noise_level
\* is 0/0 = nan (numpy warns, it does not raise); max(0, nan) is 0.
assess_image_quality(image) ==
    IF image.raises THEN NeutralMetrics
    ELSE LET sharpness_score == Min(image.sharpness, 100) * Scale
             contrast_score == Min(2 * image.contrast, 100) * Scale
             brightness_score ==
                 (100 * 127 - 100 * Abs(image.brightness - 127)) * (Scale \div 127)
             noise_score ==
                 IF Uniform(image) THEN 0 ELSE Max(0, 100 - image.noise) * Scale
             text_score == Min(5 * image.edges, 100) * Scale
         IN  [sharpness |-> sharpness_score, contrast |-> contrast_score,
              brightness |-> brightness_score, noise_level |-> noise_score,
              text_density |-> text_score,
              overall_score |->
                  (sharpness_score + contrast_score + brightness_score
                   + noise_score + text_score) \div 5]

\* The metrics in the unit of the thresholds of the strategy selection, rounded
\* so that each of its strict comparisons with a whole number is kept:
\* x > 60 iff ceil(x) > 60, x < 60 iff floor(x) < 60.
Floor(x) == x \div Scale
Ceil(x) == 0 - ((0 - x) \div Scale)
ThresholdUnits(m) ==
    [text_density |-> Ceil(m.text_density), overall_score |-> Floor(m.overall_score),
     sharpness |-> Floor(m.sharpness)]

\* ------------------------------------------------------ strategy selection
\* EnhancedOCRProcessor.ocr_strategies, the catalog __init__ builds (Python
\* index k is index k + 1 here).
OCRStrategy(name, psm, oem, preprocessing_type) ==
    [name |-> name, psm |-> psm, oem |-> oem, preprocessing_type |-> preprocessing_type]
ocr_strategies ==
    << OCRStrategy("document_text", 6, 3, "document"),
       OCRStrategy("screenshot_mixed", 11, 3, "screenshot"),
       OCRStrategy("single_line", 8, 3, "line"),
       OCRStrategy("web_content", 3, 3, "web"),
       OCRStrategy("dense_text", 6, 1, "document_enhanced") >>

\* _select_strategies_by_quality on the catalog `strategies`.
\* A selection whose comparisons include the boundary values.
select_strategies_by_quality_Inclusive(strategies, quality_metrics) ==
    <<strategies[1], strategies[2]>>
    \o (IF quality_metrics.text_density >= 60 THEN <<strategies[5]>> ELSE <<>>)
    \o (IF quality_metrics.overall_score <= 60 THEN <<strategies[4]>> ELSE <<>>)
    \o (IF quality_metrics.sharpness <= 50 THEN <<strategies[3]>> ELSE <<>>)
\* A selection that adds the first catalog entry again for a blurred image.
select_strategies_by_quality_Repeat(strategies, quality_metrics) ==
    <<strategies[1], strategies[2]>>
    \o (IF quality_metrics.text_density > 60 THEN <<strategies[5]>> ELSE <<>>)
    \o (IF quality_metrics.overall_score < 60 THEN <<strategies[4]>> ELSE <<>>)
    \o (IF quality_metrics.sharpness < 50 THEN <<strategies[1]>> ELSE <<>>)
select_strategies_by_quality(strategies, quality_metrics) ==
    <<strategies[1], strategies[2]>>
    \o (IF quality_metrics.text_density > 60 THEN <<strategies[5]>> ELSE <<>>)
    \o (IF quality_metrics.overall_score < 60 THEN <<strategies[4]>> ELSE <<>>)
    \o (IF quality_metrics.sharpness < 50 THEN <<strategies[3]>> ELSE <<>>)

\* ---------------------------------------------------------- OCR: extraction
\* The OCR engine on an image: the text it reads and the mean confidence.
EngineText(content) == IF content = TextImage THEN <<"a", " ", " ", "5">> ELSE <<>>
EngineConfidence(content) == IF content = TextImage THEN 80 ELSE 0

\* One entry of the results list of apply_multiple_strategies.
Candidate(text, conf, lang, strategy, prep) ==
    [text |-> text, confidence |-> conf, language |-> lang, strategy |-> strategy,
     preprocessing |-> prep, text_length |-> Len(text), word_count |-> WordCount(text)]

\* self.language_codes, in the order of the dict, and the entries the model
\* tries for each strategy (the first MaxLanguages of them).
language_codes ==
    <<"german", "english", "spanish", "french", "italian", "portuguese", "dutch",
      "auto", "multi_european">>
MaxLanguages == 2
Languages == SubSeq(language_codes, 1, MaxLanguages)
LanguageNames == {Languages[k] : k \in 1..Len(Languages)}

\* What happens inside the two try blocks of apply_multiple_strategies.  For a
\* strategy: the preprocessing fallback or Image.fromarray raises (the strategy
\* fails), or the language loop runs.  For a (strategy, language) pair: a
\* pytesseract call raises, or the calls return confidences and a text.
EngineRaises == [raises |-> TRUE]
EngineReturns(text, conf) == [raises |-> FALSE, text |-> text, confidence |-> conf]
StrategyFails == [fails |-> TRUE]
StrategyRuns(langs) == [fails |-> FALSE, langs |-> langs]

\* The (strategy, language) pairs in the order of the two for loops.
Pairs(strategies, languages) ==
    [n \in 1..(Len(strategies) * Len(languages)) |->
        [strategy |-> strategies[((n - 1) \div Len(languages)) + 1],
         language |-> languages[((n - 1) % Len(languages)) + 1]]]

\* A variant without the `if text:` test.
Yields_NoTextTest(engine, pair) ==
    /\ ~engine[pair.strategy.name].fails
    /\ ~engine[pair.strategy.name].langs[pair.language].raises
\* The pair reaches results.append: nothing raised and `if text:` holds for the
\* stripped text.
Yields(engine, pair) ==
    LET e == engine[pair.strategy.name]
    IN  /\ ~e.fails
        /\ ~e.langs[pair.language].raises
        /\ Strip(e.langs[pair.language].text) # <<>>

\* preprocess_image: the transform of the preprocessing type runs on the image
\* (image.transform says whether it returns or raises, after its own grayscale
\* conversion); when it raises the except branch returns the plain grayscale
\* conversion.  processed names what the strategy hands to the OCR engine.
\* A variant without the except branch: the error reaches the caller.
preprocess_image_Propagates(image, preprocessing_type) ==
    IF image.transform[preprocessing_type] = "raises"
    THEN [raises |-> TRUE]
    ELSE [raises |-> FALSE, processed |-> preprocessing_type]
preprocess_image(image, preprocessing_type) ==
    IF image.transform[preprocessing_type] = "raises"
    THEN [raises |-> FALSE, processed |-> "grayscale"]
    ELSE [raises |-> FALSE, processed |-> preprocessing_type]

\* The outer try of apply_multiple_strategies reaches the language loop for the
\* strategy: neither preprocess_image nor Image.fromarray raised.
StrategyRunsOn(image, strategy) ==
    /\ ~preprocess_image(image, strategy.preprocessing_type).raises
    /\ ~image.engine[strategy.name].fails

\* The OCR attempts of apply_multiple_strategies (the calls of image_to_data),
\* in order: strategy, language, and the processed image handed to the engine.
ocr_attempts(image, quality_metrics) ==
    LET strategies_to_use == select_strategies_by_quality(ocr_strategies, quality_metrics)
        tried == SelectSeq(Pairs(strategies_to_use, Languages),
                           LAMBDA p : StrategyRunsOn(image, p.strategy))
    IN  [k \in 1..Len(tried) |->
            [strategy |-> tried[k].strategy.name, language |-> tried[k].language,
             processed |-> preprocess_image(
                               image, tried[k].strategy.preprocessing_type).processed]]

\* apply_multiple_strategies on an image (of which the model keeps what the
\* transforms and the engine do on it) and the metrics, in the unit of the
\* selection thresholds.
apply_multiple_strategies(image, quality_metrics) ==
    LET strategies_to_use == select_strategies_by_quality(ocr_strategies, quality_metrics)
        kept == SelectSeq(Pairs(strategies_to_use, Languages),
                          LAMBDA p : StrategyRunsOn(image, p.strategy)
                                         /\ Yields(image.engine, p))
    IN  [k \in 1..Len(kept) |->
            LET o == image.engine[kept[k].strategy.name].langs[kept[k].language]
            IN  Candidate(Strip(o.text), o.confidence, kept[k].language,
                          kept[k].strategy.name, kept[k].strategy.preprocessing_type)]

\* The images of the upload directory: what cv2 measures on them (a page of
\* text; a uniform gray page) and what the engine does (every strategy runs and
\* every language returns the same text).
StrategyNames == {ocr_strategies[k].name : k \in 1..Len(ocr_strategies)}
PreprocessingTypes == {ocr_strategies[k].preprocessing_type : k \in 1..Len(ocr_strategies)}
ImageMeasure(content) ==
    IF content = TextImage
    THEN [sharpness |-> 400, contrast |-> 80, brightness |-> 127, noise |-> 50,
          edges |-> 5, raises |-> FALSE]
    ELSE [sharpness |-> 0, contrast |-> 0, brightness |-> 127, noise |-> 0,
          edges |-> 0, raises |-> FALSE]
OCRImage(content) ==
    [measure |-> ImageMeasure(content),
     transform |-> [p \in PreprocessingTypes |-> "returns"],
     engine |-> [s \in StrategyNames |->
                    StrategyRuns([l \in LanguageNames |->
                        EngineReturns(EngineText(content), EngineConfidence(content))])]]

\* process_job, steps 1 and 2: quality_metrics and ocr_results of an image,
\* computed once for each content a file can have.
FileContents == {TextImage, BlankImage, Corrupt}
quality_metrics_by_content ==
    [c \in FileContents |-> assess_image_quality(ImageMeasure(c))]
quality_metrics_of(content) == quality_metrics_by_content[content]
ocr_results_by_content ==
    [c \in FileContents |->
        apply_multiple_strategies(OCRImage(c), ThresholdUnits(quality_metrics_of(c)))]
ocr_results_of(content) == ocr_results_by_content[content]

\* _calculate_result_score, times 100.
\* A table whose .get default is 5.
strategy_bonus_Default5(name) ==
    IF name = "document_text" THEN 10
    ELSE IF name = "screenshot_mixed" THEN 8
    ELSE IF name = "web_content" THEN 6
    ELSE IF name = "dense_text" THEN 7
    ELSE 5
strategy_bonus(name) ==
    IF name = "document_text" THEN 10
    ELSE IF name = "screenshot_mixed" THEN 8
    ELSE IF name = "web_content" THEN 6
    ELSE IF name = "dense_text" THEN 7
    ELSE IF name = "single_line" THEN 5
    ELSE 0
language_bonus(name) ==
    IF name = "auto" THEN 5
    ELSE IF name = "multi_european" THEN 8
    ELSE IF name \in {"english", "german"} THEN 7
    ELSE 0
\* A score that counts confidence against the result.
calculate_result_score_Penalty(r) ==
    20 * Min(r.text_length, 100) + 15 * Min(10 * r.word_count, 100)
    + 15 * strategy_bonus(r.strategy) + 10 * language_bonus(r.language)
    - 40 * r.confidence
calculate_result_score(r) ==
    40 * r.confidence + 20 * Min(r.text_length, 100)
    + 15 * Min(10 * r.word_count, 100)
    + 15 * strategy_bonus(r.strategy) + 10 * language_bonus(r.language)

\* scored_results.sort(key=lambda x: x[0], reverse=True): list.sort is stable,
\* also with reverse=True, so a pair goes behind the pairs already placed whose
\* score is at least its own.  The pairs are <<score, result>>.
\* A sort that puts a pair in front of the pairs with an equal score.
InsertByScore_Unstable(sorted, x) ==
    LET n == Cardinality({k \in 1..Len(sorted) : sorted[k][1] > x[1]})
    IN  SubSeq(sorted, 1, n) \o <<x>> \o SubSeq(sorted, n + 1, Len(sorted))
InsertByScore(sorted, x) ==
    LET n == Cardinality({k \in 1..Len(sorted) : sorted[k][1] >= x[1]})
    IN  SubSeq(sorted, 1, n) \o <<x>> \o SubSeq(sorted, n + 1, Len(sorted))
RECURSIVE SortByScore(_)
SortByScore(scored) ==
    IF scored = <<>> THEN <<>>
    ELSE InsertByScore(SortByScore(SubSeq(scored, 1, Len(scored) - 1)),
                       scored[Len(scored)])

\* select_best_result: the sentinel for an empty list, else the result of the
\* first pair of the sorted scored_results.
\* A sentinel that names the first strategy of the catalog.
Sentinel_Document ==
    [text |-> <<>>, confidence |-> 0, language |-> "unknown",
     strategy |-> "document_text", preprocessing |-> "document"]
Sentinel ==
    [text |-> <<>>, confidence |-> 0, language |-> "unknown",
     strategy |-> "none", preprocessing |-> "none"]
select_best_result(results) ==
    IF results = <<>> THEN Sentinel
    ELSE LET scored_results ==
                 [k \in 1..Len(results) |->
                     <<calculate_result_score(results[k]), results[k]>>]
         IN  SortByScore(scored_results)[1][2]

\* assess_image_quality(...).overall_score of a decoded image.
QualityScore(content) == Floor(quality_metrics_of(content).overall_score)

\* process_job, steps 3 and 4: the best result with its text post-processed.
best_result_by_content ==
    [c \in FileContents |->
        LET best == select_best_result(ocr_results_of(c))
        IN  [best EXCEPT !.text = post_process_text(best.text)]]
best_result_of(content) == best_result_by_content[content]

\* OCRProcessor.preprocess_image + extract_text: an image that cv2.imread cannot
\* decode comes back as None from the fallback imread, Image.fromarray(None)
\* raises inside extract_text and its handler returns the 'error' result; an image
\* without text takes the no-best_result fallback.
extract_text(content) ==
    IF content = Corrupt
    THEN [text |-> <<>>, confidence |-> 0, language |-> "error"]
    ELSE IF EngineConfidence(content) > 0 /\ Strip(EngineText(content)) # <<>>
         THEN [text |-> Strip(EngineText(content)),
               confidence |-> EngineConfidence(content), language |-> "german"]
         ELSE [text |-> EngineText(content), confidence |-> 0, language |-> "unknown"]

\* -------------------------------------------------------------- AI analysis
\* What a call to an AI service does: it raises (or its text is not JSON), it
\* answers the JSON object the prompt asks for (title, summary, entities), or it
\* answers an object that also holds analysis, model and tokens_used.
AIReplies == {"raise", "structured", "full"}
ReplyDict(r) ==
    IF r = "structured"
    THEN [title |-> "t", summary |-> "s", entities |-> "e"]
    ELSE [analysis |-> "AI analysis", model |-> "ai-model", tokens_used |-> 10]

\* EnhancedOCRProcessor.analyze_with_ai: the dict it returns and the services it
\* called, for replies g of Gemini and o of OpenAI.
\* keys says which of self.gemini_api_key and self.openai_api_key are set; calls
\* lists the services in the order of the calls.
\* A variant that asks OpenAI first and Gemini as the fallback.
analyze_with_keys_OpenAIFirst(keys, text, g, o) ==
    IF IsBlank(text)
    THEN [ai |-> [error |-> "No text to analyze"], calls |-> <<>>]
    ELSE IF keys.openai /\ o # "raise"
         THEN [ai |-> ReplyDict(o), calls |-> <<"openai">>]
         ELSE LET first == IF keys.openai THEN <<"openai">> ELSE <<>>
              IN  IF keys.gemini
                  THEN IF g # "raise"
                       THEN [ai |-> ReplyDict(g), calls |-> first \o <<"gemini">>]
                       ELSE [ai |-> [error |-> "Gemini analysis failed"],
                             calls |-> first \o <<"gemini">>]
                  ELSE [ai |-> [error |-> "No AI provider is available or both failed."],
                        calls |-> first]
analyze_with_keys(keys, text, g, o) ==
    IF IsBlank(text)
    THEN [ai |-> [error |-> "No text to analyze"], calls |-> <<>>]
    ELSE IF keys.gemini /\ g # "raise"
         THEN [ai |-> ReplyDict(g), calls |-> <<"gemini">>]
         ELSE LET first == IF keys.gemini THEN <<"gemini">> ELSE <<>>
              IN  IF keys.openai
                  THEN IF o # "raise"
                       THEN [ai |-> ReplyDict(o), calls |-> first \o <<"openai">>]
                       ELSE [ai |-> [error |-> "OpenAI analysis failed"],
                             calls |-> first \o <<"openai">>]
                  ELSE [ai |-> [error |-> "No AI provider is available or both failed."],
                        calls |-> first]
analyze_with_ai(i, text, g, o) ==
    analyze_with_keys([gemini |-> gemini_api_key[i], openai |-> openai_api_key[i]],
                      text, g, o)

\* A failure reply under the key 'error', as EnhancedOCRProcessor gives it.
analyze_openai_ErrorKey(text, ok, blankMessage, model) ==
    IF IsBlank(text)
    THEN [ai |-> [analysis |-> blankMessage, model |-> "none", tokens_used |-> 0],
          calls |-> <<>>]
    ELSE IF ok
         THEN [ai |-> [analysis |-> "AI analysis", model |-> model, tokens_used |-> 10],
               calls |-> <<"openai">>]
         ELSE [ai |-> [error |-> "Error occurred during AI analysis"],
               calls |-> <<"openai">>]
\* OCRProcessor.analyze_with_ai and TextAnalyzer.analyze_text_with_ai: every
\* return carries analysis, model and tokens_used.  ok: the OpenAI call returns.
analyze_openai(text, ok, blankMessage, model) ==
    IF IsBlank(text)
    THEN [ai |-> [analysis |-> blankMessage, model |-> "none", tokens_used |-> 0],
          calls |-> <<>>]
    ELSE IF ok
         THEN [ai |-> [analysis |-> "AI analysis", model |-> model, tokens_used |-> 10],
               calls |-> <<"openai">>]
         ELSE [ai |-> [analysis |-> "Error occurred during AI analysis",
                       model |-> "error", tokens_used |-> 0],
               calls |-> <<"openai">>]

\* The AI calls of one job, as history records.
Calls(m, providers, text) ==
    {[mid |-> m.mid, text |-> text] : k \in 1..Len(providers)}

\* ------------------------------------------------------- OCR: process_job
\* `if not file_path or not os.path.exists(file_path)`.
FileNotFound(body, fs) ==
    \/ IsNone(Get(body, "file_path"))
    \/ Get(body, "file_path")[1] \notin DOMAIN fs

\* Where the except branch of process_job / process_text_job leaves the loop:
\* it logs and returns, and the loop polls again.
\* A handler that lets the error reach the loop-level handler, which sleeps.
JobErrorPc_Backoff == "BackoffSleep"
JobErrorPc == "Idle"

\* EnhancedOCRProcessor.load_image raises: cv2.imread returned None.
LoadImageRaises(content) == content = Corrupt

\* EnhancedOCRProcessor.process_job up to the call of store_enhanced_results.
EnhancedProcess(i) ==
    /\ IsEnhanced(i)
    /\ pc[i] = "Processing"
    /\ LET m == cur[i]
           body == m.w.body
       IN  IF FileNotFound(body, files)
           THEN /\ pc' = [pc EXCEPT ![i] = "Idle"]
                /\ cur' = [cur EXCEPT ![i] = NoJob]
                /\ log' = Logged(log, m.mid, "file_not_found")
                /\ UNCHANGED <<res, aiCalls>>
           ELSE IF LoadImageRaises(files[Get(body, "file_path")[1]])
           THEN /\ pc' = [pc EXCEPT ![i] = JobErrorPc]
                /\ cur' = [cur EXCEPT ![i] = NoJob]
                /\ log' = Logged(log, m.mid, "job_error")
                /\ UNCHANGED <<res, aiCalls>>
           ELSE \E g \in AIReplies, o \in AIReplies :
                LET content == files[Get(body, "file_path")[1]]
                    ocr_results == ocr_results_of(content)
                IN  \E best_result \in {best_result_of(content)} :
                    \E a \in {analyze_with_ai(i, best_result.text, g, o)} :
                    /\ pc' = [pc EXCEPT ![i] = "Publishing"]
                    /\ res' = [res EXCEPT ![i] =
                                 [ocr |-> best_result, ai |-> a.ai,
                                  quality |-> QualityScore(content),
                                  strategies_tried |-> Len(ocr_results)]]
                    /\ aiCalls' = aiCalls \cup Calls(m, a.calls, best_result.text)
                    /\ UNCHANGED <<cur, log>>
    /\ UNCHANGED <<call, feed, ocr_impl, queues, files, db, timer, intake, faults, popCount,
                   published, loopErrors>>

\* OCRProcessor.process_job up to the call of store_results.
BasicProcess(i) ==
    /\ IsBasic(i)
    /\ pc[i] = "Processing"
    /\ LET m == cur[i]
           body == m.w.body
       IN  IF FileNotFound(body, files)
           THEN /\ pc' = [pc EXCEPT ![i] = "Idle"]
                /\ cur' = [cur EXCEPT ![i] = NoJob]
                /\ log' = Logged(log, m.mid, "file_not_found")
                /\ UNCHANGED <<res, aiCalls>>
           ELSE \E ok \in BOOLEAN :
                LET content == files[Get(body, "file_path")[1]]
                    ocr_result == extract_text(content)
                    a == analyze_openai(ocr_result.text, ok,
                                        "No text was extracted from the image.", "gpt-4")
                IN  /\ pc' = [pc EXCEPT ![i] = "Publishing"]
                    /\ res' = [res EXCEPT ![i] = [ocr |-> ocr_result, ai |-> a.ai]]
                    /\ aiCalls' = aiCalls \cup Calls(m, a.calls, ocr_result.text)
                    /\ log' = IF ocr_result.language = "error"
                              THEN Logged(log, m.mid, "extract_error") ELSE log
                    /\ cur' = cur
    /\ UNCHANGED <<call, feed, ocr_impl, queues, files, db, timer, intake, faults, popCount,
                   published, loopErrors>>

\* ------------------------------------------------- Text-Analysis: the job
\* job.get('direct_text', ''): '' when the key is absent, None when it is null.
DirectText(body) == IF "direct_text" \in DOMAIN body THEN body.direct_text ELSE Some(<<>>)

\* process_text_job goes on to the AI analysis: text_content.strip() neither
\* raises (None has no strip) nor is empty.
\* A check that tests the text without stripping it.
TextAccepted_NoStrip(body) == ~IsNone(DirectText(body)) /\ DirectText(body)[1] # <<>>
TextAccepted(body) == ~IsNone(DirectText(body)) /\ ~IsBlank(DirectText(body)[1])

\* TextAnalyzer.process_text_job up to the call of store_text_analysis_results.
TextProcess(i) ==
    /\ i \in TextStage
    /\ pc[i] = "Processing"
    /\ LET m == cur[i]
           body == m.w.body
       IN  IF ~TextAccepted(body)
           THEN /\ pc' = [pc EXCEPT ![i] = IF IsNone(DirectText(body))
                                           THEN JobErrorPc ELSE "Idle"]
                /\ cur' = [cur EXCEPT ![i] = NoJob]
                /\ log' = Logged(log, m.mid, IF IsNone(DirectText(body))
                                             THEN "job_error" ELSE "no_text")
                /\ UNCHANGED <<res, aiCalls>>
           ELSE \E ok \in BOOLEAN :
                LET text == DirectText(body)[1]
                    a == analyze_openai(text, ok, "No text provided for analysis.",
                                        "gpt-3.5-turbo")
                IN  /\ pc' = [pc EXCEPT ![i] = "Publishing"]
                    /\ res' = [res EXCEPT ![i] = [text |-> text, ai |-> a.ai]]
                    /\ aiCalls' = aiCalls \cup Calls(m, a.calls, text)
                    /\ UNCHANGED <<cur, log>>
    /\ UNCHANGED <<call, feed, ocr_impl, queues, files, db, timer, intake, faults, popCount,
                   published, loopErrors>>

\* ------------------------------------------------------------- publishing
\* `if user_id is None: user_id = 1`.
\* A default that replaces every falsy user_id (`if not user_id`).
DefaultUser_Falsy(user) == IF IsNone(user) \/ user = Some(0) THEN Some(1) ELSE user
DefaultUser(user) == IF IsNone(user) THEN Some(1) ELSE user

\* The nine keys every producer of storage_queue sets.
BaseData(user, folder, text, ai, path, conf, lang) ==
    [user_id |-> DefaultUser(user), folder_id |-> folder, ocr_text |-> Some(text),
     ai_response |-> Some(ai.analysis), image_path |-> path,
     ocr_confidence |-> Some(conf), ocr_language |-> Some(lang),
     ai_model |-> Some(ai.model), ai_tokens |-> Some(ai.tokens_used)]

\* The six keys store_enhanced_results and store_text_analysis_results add.
ExtraData(strategy, prep, quality, tried, text) ==
    [ocr_strategy |-> Some(strategy), preprocessing_type |-> Some(prep),
     image_quality_score |-> Some(quality), strategies_tried |-> Some(tried),
     text_length |-> Some(Len(text)), word_count |-> Some(WordCount(text))]

\* Building storage_data raises KeyError: ai_analysis lacks a key it reads.
StorageDataRaises(ai) == ~({"analysis", "model", "tokens_used"} \subseteq DOMAIN ai)

\* storage_data of store_enhanced_results, store_results and
\* store_text_analysis_results.
StorageData(i, body, r) ==
    IF IsEnhanced(i)
    THEN BaseData(Get(body, "user_id"), Get(body, "folder_id"), r.ocr.text, r.ai,
                  Get(body, "file_path"), r.ocr.confidence, r.ocr.language)
         @@ ExtraData(r.ocr.strategy, r.ocr.preprocessing, r.quality,
                      r.strategies_tried, r.ocr.text)
    ELSE IF IsBasic(i)
    THEN BaseData(Get(body, "user_id"), Get(body, "folder_id"), r.ocr.text, r.ai,
                  Get(body, "file_path"), r.ocr.confidence, r.ocr.language)
    ELSE BaseData(Get(body, "user_id"), Get(body, "folder_id"), r.text, r.ai,
                  IF "file_path" \in DOMAIN body THEN body.file_path ELSE Some(""),
                  100, IF "language" \in DOMAIN body THEN body.language[1] ELSE "auto")
         @@ ExtraData("clipboard_text", "none", 100, 1, r.text)

\* What store_enhanced_results / store_results / store_text_analysis_results
\* leave in table responses: they hold no database handle and only lpush.
\* A store_* that inserts the record itself as well as queueing it.
AfterPublish_Insert(rows, m) == Append(rows, m)
AfterPublish(rows, m) == rows

\* store_enhanced_results / store_results / store_text_analysis_results: build
\* storage_data and lpush it; a KeyError is caught and logged and nothing is
\* pushed.
Publish(i) ==
    /\ i \in OCRStage \cup TextStage
    /\ pc[i] = "Publishing"
    /\ LET m == cur[i]
       IN  IF StorageDataRaises(res[i].ai)
           THEN /\ log' = Logged(log, m.mid, "store_error")
                /\ UNCHANGED <<queues, published>>
           ELSE /\ log' = log
                /\ queues' = [queues EXCEPT !["storage_queue"] =
                                LPush(@, Message(m.src, m.origin, "storage_queue",
                                                 [enc |-> "json",
                                                  body |-> StorageData(i, m.w.body, res[i])]))]
                /\ published' = Bump(published, m.src)
    /\ db' = AfterPublish(db, cur[i])
    /\ pc' = [pc EXCEPT ![i] = "Idle"]
    /\ cur' = [cur EXCEPT ![i] = NoJob]
    /\ res' = [res EXCEPT ![i] = NoRes]
    /\ UNCHANGED <<call, feed, ocr_impl, files, timer, intake, faults, popCount, aiCalls,
                   loopErrors>>

\* The lpush of store_* raises: the except branch logs and the job is gone.
PublishFails(i) ==
    /\ i \in OCRStage \cup TextStage
    /\ pc[i] = "Publishing"
    /\ ~StorageDataRaises(res[i].ai)
    /\ faults < MaxFaults
    /\ faults' = faults + 1
    /\ pc' = [pc EXCEPT ![i] = "Idle"]
    /\ cur' = [cur EXCEPT ![i] = NoJob]
    /\ res' = [res EXCEPT ![i] = NoRes]
    /\ log' = Logged(log, cur[i].mid, "store_error")
    /\ UNCHANGED <<call, feed, ocr_impl, queues, files, db, timer, intake,
                   popCount, published, aiCalls, loopErrors>>

\* ------------------------------------------------------------------ storage
\* job_data.get(key, default)
GetOr(body, key, default) == IF key \in DOMAIN body THEN body[key] ELSE Some(default)

\* `if not user_id`: absent, null or 0.
MissingUser(body) == IsNone(Get(body, "user_id")) \/ Get(body, "user_id") = Some(0)

\* The values of the INSERT of store_response.
Row(m) ==
    LET b == m.w.body
    IN  [mid |-> m.mid, src |-> m.src,
         user_id |-> Get(b, "user_id"), folder_id |-> Get(b, "folder_id"),
         ocr_text |-> GetOr(b, "ocr_text", <<>>),
         ai_response |-> GetOr(b, "ai_response", ""),
         image_path |-> GetOr(b, "image_path", ""),
         ocr_confidence |-> GetOr(b, "ocr_confidence", 0),
         ocr_language |-> GetOr(b, "ocr_language", "unknown"),
         ai_model |-> GetOr(b, "ai_model", "unknown"),
         ai_tokens |-> GetOr(b, "ai_tokens", 0)]

\* What a failed insert leaves on storage_queue: store_response re-raises and
\* the loop only logs ("could re-queue the job for retry" is a comment).
\* A loop that re-queues the job whose insert failed.
AfterStoreFailure_Requeue(q, m) == LPush(q, m)
AfterStoreFailure(q, m) == q

\* Where a failed insert takes the loop: the inner `except Exception` of
\* processing_loop logs and the `while True` polls again, without the sleep of
\* the loop-level handler.
\* An inner handler that backs off like the loop-level one.
StoreFailurePc_Backoff == "BackoffSleep"
StoreFailurePc == "Idle"

\* StorageProcessor.store_response inside the inner try of processing_loop: no
\* insert without a user_id, else one INSERT INTO responses.
StoreResponse(i) ==
    /\ i \in StorageStage
    /\ pc[i] = "Processing"
    /\ db' = IF MissingUser(cur[i].w.body) THEN db ELSE Append(db, Row(cur[i]))
    /\ log' = IF MissingUser(cur[i].w.body) THEN Logged(log, cur[i].mid, "no_user") ELSE log
    /\ pc' = [pc EXCEPT ![i] = "Idle"]
    /\ cur' = [cur EXCEPT ![i] = NoJob]
    /\ UNCHANGED <<call, feed, ocr_impl, queues, files, res, timer, intake, faults,
                   popCount, published, aiCalls, loopErrors>>

\* db.fetchval raises: store_response logs and re-raises, the inner handler of
\* the loop logs, and the loop polls again.
StoreFails(i) ==
    /\ i \in StorageStage
    /\ pc[i] = "Processing"
    /\ ~MissingUser(cur[i].w.body)
    /\ faults < MaxFaults
    /\ faults' = faults + 1
    /\ queues' = [queues EXCEPT !["storage_queue"] = AfterStoreFailure(@, cur[i])]
    /\ log' = Logged(log, cur[i].mid, "db_error")
    /\ pc' = [pc EXCEPT ![i] = StoreFailurePc]
    /\ timer' = [timer EXCEPT ![i] = SleepFor(StoreFailurePc)]
    /\ cur' = [cur EXCEPT ![i] = NoJob]
    /\ UNCHANGED <<call, feed, ocr_impl, files, db, res, intake, popCount,
                   published, aiCalls, loopErrors>>

\* ---------------------------------------------------------- process control
\* A stage process is killed while it holds a job (ProcessorService.shutdown
\* calls sys.exit; any kill of the process does the same) and is started again:
\* its locals are gone and start_processing enters the loop.
Crash(i) ==
    /\ pc[i] \in {"Processing", "Publishing"}
    /\ faults < MaxFaults
    /\ faults' = faults + 1
    /\ pc' = [pc EXCEPT ![i] = "Idle"]
    /\ cur' = [cur EXCEPT ![i] = NoJob]
    /\ res' = [res EXCEPT ![i] = NoRes]
    /\ UNCHANGED <<call, feed, ocr_impl, queues, files, db, timer, intake, popCount,
                   published, aiCalls,
                   log, loopErrors>>

Next ==
    \/ \E f \in Feeds : \E p \in Pushes(f) : Enqueue(p[1], p[2])
    \/ \E i \in Instances : PopFails(i)
    \/ \E i \in Instances : PopTimesOut(i)
    \/ \E i \in Instances : PopJob(i)
    \/ \E i \in Instances : Wake(i)
    \/ \E i \in Instances : EnhancedProcess(i)
    \/ \E i \in Instances : BasicProcess(i)
    \/ \E i \in Instances : TextProcess(i)
    \/ \E i \in Instances : Publish(i)
    \/ \E i \in Instances : PublishFails(i)
    \/ \E i \in Instances : StoreResponse(i)
    \/ \E i \in Instances : StoreFails(i)
    \/ \E i \in Instances : Crash(i)

Spec == Init /\ [][Next]_vars

\* Each stage instance is a process of its own running `while True`: when the
\* transport answers and the OCR, AI and database calls return, the instance
\* takes the next step of its loop.  The faults of the environment (PopFails,
\* PublishFails, StoreFails, Crash) are under no fairness and are finite.
LoopStep(i) ==
    \/ PopJob(i)
    \/ Wake(i)
    \/ EnhancedProcess(i)
    \/ BasicProcess(i)
    \/ TextProcess(i)
    \/ Publish(i)
    \/ StoreResponse(i)

\* The pipeline with at most MaxLiveJobs uploads.
MaxLiveJobs == 1
NextLive ==
    \/ \E f \in Feeds : \E p \in Pushes(f) : intake < MaxLiveJobs /\ Enqueue(p[1], p[2])
    \/ \E i \in Instances : PopFails(i)
    \/ \E i \in Instances : PopTimesOut(i)
    \/ \E i \in Instances : PopJob(i)
    \/ \E i \in Instances : Wake(i)
    \/ \E i \in Instances : EnhancedProcess(i)
    \/ \E i \in Instances : BasicProcess(i)
    \/ \E i \in Instances : TextProcess(i)
    \/ \E i \in Instances : Publish(i)
    \/ \E i \in Instances : PublishFails(i)
    \/ \E i \in Instances : StoreResponse(i)
    \/ \E i \in Instances : StoreFails(i)
    \/ \E i \in Instances : Crash(i)

SpecLive == Init /\ [][NextLive]_vars /\ \A i \in Instances : WF_vars(LoopStep(i))

\* -------------------------------------------------------- the desktop client
\* ScreenshotClient: the capture handlers put items on upload_queue, the
\* upload worker thread takes them, and the hotkey handler retry_failed_uploads
\* moves retry_queue back to upload_queue.  The client's state is held in
\* `call`: the two queues (index 1 is the element get() returns next), the
\* position and local `item` of the worker and of the hotkey handler, and the
\* histories `attempts` (calls of upload_screenshot per item) and `finished`
\* (items that were uploaded or given up).
MaxItems == 2
MaxRetryAttempts == 2
NoItem == [id |-> 0, retry_count |-> 0]

\* `if item['retry_count'] <= max_retries`.
\* A test that grants one retry more.
RetriesRemain_OneMore(retry_count, max_retries) == retry_count <= max_retries + 1
RetriesRemain(retry_count, max_retries) == retry_count <= max_retries

\* success = self.upload_screenshot(item) and the branch that follows: a failed
\* item gets retry_count + 1 and goes to retry_queue while retries remain.
AfterUpload(c, success) ==
    LET item == [c.worker.item EXCEPT !.retry_count = @ + 1]
        requeue == ~success /\ RetriesRemain(item.retry_count, c.retry_attempts)
    IN  [c EXCEPT !.attempts[item.id] = @ + 1,
                  !.retry_queue = IF requeue THEN Append(@, item) ELSE @,
                  !.finished = IF requeue THEN @ ELSE @ \cup {item.id},
                  !.worker.item = NoItem]

\* process_screenshot / the clipboard handlers: self.upload_queue.put({...}).
Capture ==
    /\ call.fn = "client"
    /\ call.captured < MaxItems
    /\ call' = [call EXCEPT
                  !.captured = @ + 1,
                  !.upload_queue = Append(@, [id |-> call.captured + 1, retry_count |-> 0])]

\* One step of the `while True` of upload_worker, by the position of the
\* thread: the upload_queue check and get, the first upload_screenshot, the
\* retry_queue check, the sleep and get(timeout=1) (queue.Empty goes to the
\* handler of the loop, which sleeps and starts over), the second
\* upload_screenshot and the sleep that ends the iteration.
upload_worker ==
    /\ call.fn = "client"
    /\ \/ /\ call.worker.pc = "check_upload"
          /\ call' = IF call.upload_queue = <<>>
                     THEN [call EXCEPT !.worker.pc = "check_retry"]
                     ELSE [call EXCEPT !.worker.pc = "upload",
                                       !.worker.item = Head(call.upload_queue),
                                       !.upload_queue = Tail(@)]
       \/ /\ call.worker.pc = "upload"
          /\ \E success \in BOOLEAN :
                call' = [AfterUpload(call, success) EXCEPT !.worker.pc = "check_retry"]
       \/ /\ call.worker.pc = "check_retry"
          /\ call' = IF call.retry_queue = <<>>
                     THEN [call EXCEPT !.worker.pc = "check_upload"]
                     ELSE [call EXCEPT !.worker.pc = "retry_get"]
       \/ /\ call.worker.pc = "retry_get"
          /\ call' = IF call.retry_queue = <<>>
                     THEN [call EXCEPT !.worker.pc = "check_upload"]
                     ELSE [call EXCEPT !.worker.pc = "retry_upload",
                                       !.worker.item = Head(call.retry_queue),
                                       !.retry_queue = Tail(@)]
       \/ /\ call.worker.pc = "retry_upload"
          /\ \E success \in BOOLEAN :
                call' = [AfterUpload(call, success) EXCEPT !.worker.pc = "check_upload"]

\* The hotkey calls retry_failed_uploads: retry_count = qsize(); with nothing
\* to retry the call returns.
RetryHotkey ==
    /\ call.fn = "client"
    /\ call.hotkey.pc = "returned"
    /\ call.retry_queue # <<>>
    /\ call' = [call EXCEPT !.hotkey.pc = "check"]

\* One step of the loop of retry_failed_uploads: `while not
\* self.retry_queue.empty()`, `item = self.retry_queue.get()`, which waits
\* while the queue is empty, and `self.upload_queue.put(item)`.
retry_failed_uploads ==
    /\ call.fn = "client"
    /\ \/ /\ call.hotkey.pc = "check"
          /\ call' = [call EXCEPT !.hotkey.pc =
                         IF call.retry_queue = <<>> THEN "returned" ELSE "get"]
       \/ /\ call.hotkey.pc = "get"
          /\ call.retry_queue # <<>>
          /\ call' = [call EXCEPT !.hotkey.pc = "put",
                                  !.hotkey.item = Head(call.retry_queue),
                                  !.retry_queue = Tail(@)]
       \/ /\ call.hotkey.pc = "put"
          /\ call' = [call EXCEPT !.hotkey.pc = "check",
                                  !.hotkey.item = NoItem,
                                  !.upload_queue = Append(@, call.hotkey.item),
                                  !.moved = Append(@, call.hotkey.item.id)]

\* ------------------------------------------------- json.dumps / json.loads
\* The storage_data keys whose value is a str; the other keys hold a number or
\* None.  ocr_text is modelled character by character.
TextKeys == {"ocr_text"}
StringKeys ==
    {"ai_response", "image_path", "ocr_language", "ai_model", "ocr_strategy",
     "preprocessing_type"}

\* Inside a JSON string json.dumps writes a backslash before a double quote and
\* before a backslash; json.loads drops the backslash and ends the string at a
\* double quote that has none.
JsonEscaped == {"\"", "\\"}
\* An encoder that writes the characters as they are.
JsonEscape_Raw(t) == t
RECURSIVE JsonEscape(_)
JsonEscape(t) ==
    IF t = <<>> THEN <<>>
    ELSE (IF Head(t) \in JsonEscaped THEN <<"\\", Head(t)>> ELSE <<Head(t)>>)
         \o JsonEscape(Tail(t))
RECURSIVE JsonUnescape(_)
JsonUnescape(t) ==
    IF t = <<>> \/ Head(t) = "\"" THEN <<>>
    ELSE IF Head(t) = "\\"
         THEN IF Len(t) = 1 THEN <<>>
              ELSE <<t[2]>> \o JsonUnescape(Tail(Tail(t)))
         ELSE <<Head(t)>> \o JsonUnescape(Tail(t))

\* json.dumps of one value of storage_data: null, a string or a number.
JsonValue(k, v) ==
    IF IsNone(v) THEN [kind |-> "null"]
    ELSE IF k \in TextKeys THEN [kind |-> "string", chars |-> JsonEscape(v[1])]
    ELSE IF k \in StringKeys THEN [kind |-> "string", atom |-> v[1]]
    ELSE [kind |-> "number", digits |-> v[1]]

\* json.loads of one value.
PyValue(j) ==
    IF j.kind = "null" THEN None
    ELSE IF j.kind = "number" THEN Some(j.digits)
    ELSE IF "chars" \in DOMAIN j THEN Some(JsonUnescape(j.chars))
    ELSE Some(j.atom)

\* json.dumps(storage_data) and json.loads(job_json): the object, key by key.
JsonDumps(data) == [k \in DOMAIN data |-> JsonValue(k, data[k])]
JsonLoads(doc) == [k \in DOMAIN doc |-> PyValue(doc[k])]

\* ------------------------------------------- str(job_data) on the ocr_queue
\* The job_data keys whose value is a str of the request (the file name under
\* uploads/, the clipboard text); the other keys hold an int or None.
JobTextKeys == {"file_path", "direct_text"}

\* repr of a str, as str(dict) writes each value: between apostrophes, or
\* between double quotes when the string holds an apostrophe and no double
\* quote; the delimiter and the backslash are written after a backslash.
RECURSIVE PyEscape(_)
PyEscape(t) ==
    IF t = <<>> THEN <<>>
    ELSE (IF Head(t) \in {"'", "\\"} THEN <<"\\", Head(t)>> ELSE <<Head(t)>>)
         \o PyEscape(Tail(t))
PyRepr(t) ==
    IF HasApostrophe(t) /\ ~HasDoubleQuote(t)
    THEN <<"\"">> \o t \o <<"\"">>
    ELSE <<"'">> \o PyEscape(t) \o <<"'">>

\* The digit str(int) and json.dumps write for an int, and the int json.loads
\* reads from a digit.
DigitOf(n) == IF n = 1 THEN "1" ELSE "7"
IntOf(d) == IF d = "1" THEN 1 ELSE 7

\* The characters str(job_data) and json.dumps(job_data) write for one value.
PyLiteral(k, v) ==
    IF IsNone(v) THEN <<"N", "o", "n", "e">>
    ELSE IF k \in JobTextKeys THEN PyRepr(v[1]) ELSE <<DigitOf(v[1])>>
JsonLiteral(k, v) ==
    IF IsNone(v) THEN <<"n", "u", "l", "l">>
    ELSE IF k \in JobTextKeys THEN <<"\"">> \o JsonEscape(v[1]) \o <<"\"">>
    ELSE <<DigitOf(v[1])>>

\* How each intake endpoint serialises job_data: upload_screenshot and
\* manual_upload push str(job_data), post_clipboard_image, post_clipboard_text
\* and batch_upload push json.dumps(job_data).
StrEndpoints == {"upload_screenshot", "manual_upload"}
EndpointWire(endpoint, job_data) ==
    [k \in DOMAIN job_data |->
        IF endpoint \in StrEndpoints THEN PyLiteral(k, job_data[k])
        ELSE JsonLiteral(k, job_data[k])]

\* job_json.replace("'", '"'), value by value.
ReplaceApostrophes(s) == [k \in 1..Len(s) |-> IF s[k] = "'" THEN "\"" ELSE s[k]]

\* The index of the double quote that ends a JSON string whose characters
\* start at index k of s, 0 when there is none.
RECURSIVE ClosingQuote(_, _)
ClosingQuote(s, k) ==
    IF k > Len(s) THEN 0
    ELSE IF s[k] = "\"" THEN k
    ELSE IF s[k] = "\\" THEN ClosingQuote(s, k + 2)
    ELSE ClosingQuote(s, k + 1)

\* json.loads accepts the characters of one value: null, a number, or a string
\* that ends where the value ends.
LoadsAccepts(s) ==
    \/ s = <<"n", "u", "l", "l">>
    \/ Len(s) = 1 /\ s[1] \in {"1", "7"}
    \/ Len(s) >= 2 /\ s[1] = "\"" /\ ClosingQuote(s, 2) = Len(s)
LoadsValue(s) ==
    IF s = <<"n", "u", "l", "l">> THEN None
    ELSE IF s[1] = "\"" THEN Some(JsonUnescape(Tail(s)))
    ELSE Some(IntOf(s[1]))

\* job = json.loads(job_json.replace("'", '"')) of the OCR and Text-Analysis
\* loops: raises, or the job the loop hands to process_job.
LooseLoadsRaises(wire) == \E k \in DOMAIN wire : ~LoadsAccepts(ReplaceApostrophes(wire[k]))
LooseLoads(wire) == [k \in DOMAIN wire |-> LoadsValue(ReplaceApostrophes(wire[k]))]

\* ------------------------------------------------ functions on their own
\* Length of the ocr_text of the storage jobs that are encoded and decoded.
MaxWireLen == 2
\* The characters of these texts.
WireChars == {"a", " ", "'", "\"", "\\"}

\* All sequences over S of length at most n.
RECURSIVE SeqsUpTo(_, _)
SeqsUpTo(S, n) ==
    IF n = 0 THEN {<<>>}
    ELSE LET shorter == SeqsUpTo(S, n - 1)
         IN  shorter \cup {Append(t, c) : t \in shorter, c \in S}

\* storage_data as store_enhanced_results builds it, for every combination of
\* user_id (absent, 0, 7), folder_id (null, 3), text and AI reply.
StorageJobs ==
    {BaseData(u, f, t, ai, Some(p), c, "english")
         @@ ExtraData("document_text", "document", 75, 2, t) :
       u \in {None, Some(0), Some(7)}, f \in {None, Some(3)},
       t \in SeqsUpTo(WireChars, MaxWireLen),
       ai \in {[analysis |-> "AI analysis", model |-> "ai-model", tokens_used |-> 10]},
       p \in {PathText, PathApostrophe}, c \in {0, 80}}

\* Number of successive calls of _select_strategies_by_quality on one processor.
MaxSelectCalls == 2
\* ImageQualityMetrics around the thresholds of the selection (the three
\* metrics the selection reads).
DensityValues == {59, 60, 61}
ScoreValues == {59, 60, 61}
SharpnessValues == {49, 50, 51}
QualityMetrics ==
    [text_density : DensityValues, overall_score : ScoreValues,
     sharpness : SharpnessValues]

\* Number of results in a list given to select_best_result.
MaxResults == 2
\* Results of apply_multiple_strategies: text, mean confidence, language,
\* strategy (with its preprocessing type).
ResultTexts == {<<"a">>, <<"a", " ", "b">>}
ConfidenceValues == {70, 80}
ResultLanguages == {"english", "german", "spanish"}
ResultStrategies == {1, 2}
Candidates ==
    {Candidate(t, c, l, ocr_strategies[k].name, ocr_strategies[k].preprocessing_type) :
       t \in ResultTexts, c \in ConfidenceValues, l \in ResultLanguages,
       k \in ResultStrategies}

\* Length of the texts given to post_process_text, and their characters: a
\* letter, a space, a line break, a character of the replace() table and a
\* control character.
MaxTextLen == 5
TextChars == {"a", " ", "\n", "5", Nul}
\* The texts apply_multiple_strategies hands on are stripped.
OCRTexts == {t \in SeqsUpTo(TextChars, MaxTextLen) : Strip(t) = t}

\* The job_data each intake endpoint builds.  file_path is uploads/ followed by
\* the file name of the request (upload_screenshot, manual_upload) or by a name
\* the endpoint makes up; direct_text is the text of the request; timestamp,
\* user_id and folder_id are optional ints, user_id of manual_upload being the
\* id of the logged-in user.  The constant "type" is left out.
MaxNameLen == 2
NameChars == {"a", "'", "\""}
RequestNames == SeqsUpTo(NameChars, MaxNameLen) \ {<<>>}
OptionalInts == {None, Some(1)}
Endpoints ==
    {"upload_screenshot", "manual_upload", "post_clipboard_image", "post_clipboard_text"}
JobData(endpoint) ==
    IF endpoint = "upload_screenshot"
    THEN {[file_path |-> Some(n), timestamp |-> ts] : n \in RequestNames, ts \in OptionalInts}
    ELSE IF endpoint = "manual_upload"
    THEN {[file_path |-> Some(n), user_id |-> Some(7), folder_id |-> f] :
             n \in RequestNames, f \in OptionalInts}
    ELSE IF endpoint = "post_clipboard_image"
    THEN {[file_path |-> Some(<<"a">>), timestamp |-> ts, user_id |-> u, folder_id |-> f] :
             ts \in OptionalInts, u \in OptionalInts, f \in OptionalInts}
    ELSE {[file_path |-> Some(<<"a">>), direct_text |-> Some(n), timestamp |-> ts,
           user_id |-> u, folder_id |-> f] :
             n \in RequestNames, ts \in OptionalInts, u \in OptionalInts, f \in OptionalInts}

\* The uploads of a run: at most MaxUploads requests, each with the file name
\* the client sends, the content of the file and the second datetime.now()
\* shows when the endpoint runs.
MaxUploads == 2
FileNames == {"a.png", "b.png"}
Contents == {"first image", "second image"}
ImageEndpoints == {"upload_screenshot", "manual_upload", "post_clipboard_image"}

\* file_path of an intake endpoint: uploads/{image.filename} for
\* upload_screenshot and manual_upload, uploads/clipboard_image_{%Y%m%d_%H%M%S}.png
\* for post_clipboard_image.
UploadPath(endpoint, filename, second) ==
    IF endpoint = "post_clipboard_image" THEN <<"clipboard_image", second>>
    ELSE <<"upload", filename>>

\* The calls a run starts from: the function and its argument.  For the
\* strategy selection: the processor's catalog and the calls made so far.
\* The settings of the two AI keys with which the constructor returns.
KeySettings == {k \in [gemini : BOOLEAN, openai : BOOLEAN] : k.gemini \/ k.openai}

\* A call of start_processing of one stage: where it is, the Redis client and
\* the database handle of the processor, the exception in flight.
Stages == {"ocr", "text", "storage"}
StartCall(stage) ==
    [fn |-> "start", stage |-> stage, at |-> "from_url", redis_client |-> "absent",
     db |-> "absent", raised |-> None, logged |-> FALSE]

\* Images given to apply_multiple_strategies on its own: for each of the three
\* strategies that the metrics below select, the strategy fails or every
\* language raises, gives blank text or gives text.
PairOutcomes == {EngineRaises, EngineReturns(<<" ">>, 0), EngineReturns(<<" ", "a">>, 80)}
StrategyOutcomes ==
    {StrategyFails} \cup {StrategyRuns(f) : f \in [LanguageNames -> PairOutcomes]}
AppliedNames == {"document_text", "screenshot_mixed", "dense_text"}
Engines ==
    {[s \in StrategyNames |-> IF s \in AppliedNames THEN e[s] ELSE StrategyFails] :
        e \in [AppliedNames -> StrategyOutcomes]}
\* The transforms of the two strategies that are always selected return or
\* raise; the other transforms return.
Transforms ==
    {[p \in PreprocessingTypes |-> IF p \in {"document", "screenshot"} THEN t[p]
                                   ELSE "returns"] :
        t \in [{"document", "screenshot"} -> {"returns", "raises"}]}
\* Results given to _calculate_result_score on its own, of which it reads five
\* keys: values below, at and above the two caps, names in and out of the tables.
ScoredResults ==
    [confidence : {0, 55, 100}, text_length : {0, 50, 100, 150},
     word_count : {0, 5, 10, 12},
     strategy : StrategyNames \cup {"custom"},
     language : {language_codes[k] : k \in 1..Len(language_codes)} \cup {"klingon"}]
AppliedMetrics ==
    {[text_density |-> d, overall_score |-> 60, sharpness |-> 50] : d \in {60, 61}}

InitCalls ==
    \/ call \in {[fn |-> "json", arg |-> j] : j \in StorageJobs}
    \/ call = [fn |-> "select", ocr_strategies |-> ocr_strategies, calls |-> <<>>]
    \/ call \in {[fn |-> "score", arg |-> r] : r \in Candidates \X Candidates}
    \/ call \in {[fn |-> "select_best", arg |-> rs] : rs \in SeqsUpTo(Candidates, MaxResults)}
    \/ call \in {[fn |-> "post_process", arg |-> t, rets |-> <<>>] : t \in OCRTexts}
    \/ call \in {[fn |-> "assess", arg |-> image] : image \in Images}
    \/ call \in {[fn |-> "apply", image |-> [engine |-> e, transform |-> t],
                  quality_metrics |-> q] :
                    e \in Engines, t \in Transforms, q \in AppliedMetrics}
    \/ call \in {StartCall(s) : s \in Stages}
    \/ call \in {[fn |-> "score_one", arg |-> r] : r \in ScoredResults}
    \/ call = [fn |-> "upload", uploads |-> [p \in {} |-> ""], ocr_queue |-> <<>>,
               second |-> 0, requests |-> <<>>, reads |-> <<>>]
    \/ \E e \in Endpoints :
          call \in {[fn |-> "intake", endpoint |-> e, job_data |-> j] : j \in JobData(e)}
    \/ call \in {[fn |-> "analyze", keys |-> k, text |-> t, gemini |-> g, openai |-> o] :
                    k \in KeySettings, t \in {<<" ">>, <<" ", "a">>},
                    g \in AIReplies, o \in AIReplies}

InitFn ==
    /\ InitPipeline
    /\ feed = "storage"
    /\ InitCalls

\* upload_screenshot / manual_upload / post_clipboard_image: open(file_path,
\* "wb") and write the content, then lpush the job naming file_path.  The clock
\* may have moved on since the request before.
UploadCall(endpoint, filename, content, second) ==
    /\ call.fn = "upload"
    /\ Len(call.requests) < MaxUploads
    /\ second \in {call.second, call.second + 1}
    /\ LET request == Len(call.requests) + 1
           file_path == UploadPath(endpoint, filename, second)
       IN  call' = [call EXCEPT
                      !.uploads = [p \in DOMAIN @ \cup {file_path} |->
                                      IF p = file_path THEN content ELSE @[p]],
                      !.ocr_queue = LPush(@, [file_path |-> file_path, request |-> request]),
                      !.second = second,
                      !.requests = Append(@, [endpoint |-> endpoint, content |-> content])]

\* The OCR loop pops a job and load_image reads the file it names.
LoadImageCall ==
    /\ call.fn = "upload"
    /\ call.ocr_queue # <<>>
    /\ LET job == Tail1(call.ocr_queue)
       IN  call' = [call EXCEPT
                      !.ocr_queue = Front(@),
                      !.reads = Append(@, [request |-> job.request,
                                           content |-> call.uploads[job.file_path]])]

\* An intake endpoint pushes job_data: lpush(queue, str(job_data)) or
\* lpush(queue, json.dumps(job_data)).
IntakePushCall ==
    /\ call.fn = "intake"
    /\ "wire" \notin DOMAIN call
    /\ call' = [fn |-> "intake", endpoint |-> call.endpoint, job_data |-> call.job_data,
                wire |-> EndpointWire(call.endpoint, call.job_data)]

\* The consuming loop decodes the payload: json.loads raises and the loop-level
\* handler takes over, or process_job gets the job.
IntakeLoadsCall ==
    /\ call.fn = "intake"
    /\ "wire" \in DOMAIN call
    /\ "raised" \notin DOMAIN call
    /\ call' = IF LooseLoadsRaises(call.wire)
               THEN [fn |-> "intake", endpoint |-> call.endpoint,
                     job_data |-> call.job_data, wire |-> call.wire, raised |-> TRUE]
               ELSE [fn |-> "intake", endpoint |-> call.endpoint,
                     job_data |-> call.job_data, wire |-> call.wire, raised |-> FALSE,
                     job |-> LooseLoads(call.wire)]

\* store_enhanced_results: json.dumps(storage_data), pushed onto storage_queue.
JsonDumpsCall ==
    /\ call.fn = "json"
    /\ "wire" \notin DOMAIN call
    /\ call' = [fn |-> "json", arg |-> call.arg, wire |-> JsonDumps(call.arg)]

\* StorageProcessor.processing_loop: job = json.loads(job_json).
JsonLoadsCall ==
    /\ call.fn = "json"
    /\ "wire" \in DOMAIN call
    /\ "ret" \notin DOMAIN call
    /\ call' = [fn |-> "json", arg |-> call.arg, wire |-> call.wire,
                ret |-> JsonLoads(call.wire)]

\* apply_multiple_strategies: strategies_to_use =
\* self._select_strategies_by_quality(quality_metrics).  The catalog is assigned
\* in __init__ only.
SelectStrategiesCall(quality_metrics) ==
    /\ call.fn = "select"
    /\ Len(call.calls) < MaxSelectCalls
    /\ call' = [call EXCEPT !.calls =
                   Append(@, [arg |-> quality_metrics,
                              ret |-> select_strategies_by_quality(
                                          call.ocr_strategies, quality_metrics)])]

\* select_best_result: score = self._calculate_result_score(result), for two
\* results of one list.
CalculateScoreCall ==
    /\ call.fn = "score"
    /\ "ret" \notin DOMAIN call
    /\ call' = [fn |-> "score", arg |-> call.arg,
                ret |-> <<calculate_result_score(call.arg[1]),
                          calculate_result_score(call.arg[2])>>]

\* select_best_result: score = self._calculate_result_score(result).
ScoreOneCall ==
    /\ call.fn = "score_one"
    /\ "ret" \notin DOMAIN call
    /\ call' = [fn |-> "score_one", arg |-> call.arg,
                ret |-> calculate_result_score(call.arg),
                strategy_bonus |-> strategy_bonus(call.arg.strategy),
                language_bonus |-> language_bonus(call.arg.language)]

\* process_job: best_result = self.select_best_result(ocr_results).
SelectBestCall ==
    /\ call.fn = "select_best"
    /\ "ret" \notin DOMAIN call
    /\ call' = [fn |-> "select_best", arg |-> call.arg,
                ret |-> select_best_result(call.arg)]

\* process_job: enhanced_text = self.post_process_text(best_result['text']);
\* the second call is post_process_text on the text the first call returned.
PostProcessCall ==
    /\ call.fn = "post_process"
    /\ Len(call.rets) < 2
    /\ call' = [call EXCEPT !.rets =
                   Append(@, post_process_text(IF @ = <<>> THEN call.arg ELSE @[Len(@)]))]

\* process_job: quality_metrics = self.assess_image_quality(original_image).
AssessQualityCall ==
    /\ call.fn = "assess"
    /\ "ret" \notin DOMAIN call
    /\ call' = [fn |-> "assess", arg |-> call.arg,
                ret |-> assess_image_quality(call.arg)]

\* process_job goes on to apply_multiple_strategies, which selects the
\* strategies for the metrics it was given.
SelectAfterAssessCall ==
    /\ call.fn = "assess"
    /\ "ret" \in DOMAIN call
    /\ "strategies" \notin DOMAIN call
    /\ call' = [fn |-> "assess", arg |-> call.arg, ret |-> call.ret,
                strategies |-> select_strategies_by_quality(
                                   ocr_strategies, ThresholdUnits(call.ret))]

\* process_job, step 2: ocr_results = apply_multiple_strategies(image, metrics).
ApplyStrategiesCall ==
    /\ call.fn = "apply"
    /\ "ret" \notin DOMAIN call
    /\ call' = [fn |-> "apply", image |-> call.image,
                quality_metrics |-> call.quality_metrics,
                ret |-> apply_multiple_strategies(call.image, call.quality_metrics),
                attempts |-> ocr_attempts(call.image, call.quality_metrics)]

\* process_job, step 5: ai_analysis = await self.analyze_with_ai(text).
AnalyzeCall ==
    /\ call.fn = "analyze"
    /\ "ret" \notin DOMAIN call
    /\ call' = [fn |-> "analyze", keys |-> call.keys, text |-> call.text,
                gemini |-> call.gemini, openai |-> call.openai,
                ret |-> analyze_with_keys(call.keys, call.text, call.gemini, call.openai)]

\* ------------------------------------------------------- start_processing
\* self.redis_client = redis.from_url(...): the first statement, before the try.
StartFromUrl ==
    /\ call.fn = "start"
    /\ call.at = "from_url"
    /\ \E ok \in BOOLEAN :
          call' = IF ok
                  THEN [call EXCEPT !.redis_client = "open",
                                    !.at = IF call.stage = "storage"
                                           THEN "db_connect" ELSE "ping"]
                  ELSE [call EXCEPT !.raised = Some("from_url"), !.at = "exited"]

\* StorageProcessor: self.db = Database(); await self.db.connect(), still
\* before the try: when connect raises, no handler and no finally clause runs.
StartDbConnect ==
    /\ call.fn = "start"
    /\ call.at = "db_connect"
    /\ \E ok \in BOOLEAN :
          call' = IF ok
                  THEN [call EXCEPT !.db = "connected", !.at = "ping"]
                  ELSE [call EXCEPT !.db = "no_pool", !.raised = Some("db_connect"),
                                    !.at = "exited"]

\* try: await self.redis_client.ping().
StartPing ==
    /\ call.fn = "start"
    /\ call.at = "ping"
    /\ \E ok \in BOOLEAN :
          call' = IF ok
                  THEN [call EXCEPT !.at = IF call.stage = "storage"
                                           THEN "select_1" ELSE "loop"]
                  ELSE [call EXCEPT !.raised = Some("ping"), !.at = "except"]

\* StorageProcessor: await self.db.execute("SELECT 1").
StartSelect1 ==
    /\ call.fn = "start"
    /\ call.at = "select_1"
    /\ \E ok \in BOOLEAN :
          call' = IF ok
                  THEN [call EXCEPT !.at = "loop"]
                  ELSE [call EXCEPT !.raised = Some("select_1"), !.at = "except"]

\* await self.processing_loop(): `while True` never returns; the loop is left
\* by an Exception raised inside its own handler, or by a BaseException
\* (cancellation), which `except Exception` of start_processing does not catch.
StartLoopEscapes ==
    /\ call.fn = "start"
    /\ call.at = "loop"
    /\ \E e \in {"loop_error", "cancelled"} :
          call' = [call EXCEPT !.raised = Some(e),
                               !.at = IF e = "cancelled" THEN "finally" ELSE "except"]

\* except Exception as e: logger.error(...); raise.
StartExcept ==
    /\ call.fn = "start"
    /\ call.at = "except"
    /\ call' = [call EXCEPT !.logged = TRUE, !.at = "finally"]

\* finally: close the Redis client and, in StorageProcessor, disconnect the
\* database; the exception in flight then leaves start_processing.
StartFinally ==
    /\ call.fn = "start"
    /\ call.at = "finally"
    /\ call' = [call EXCEPT
                  !.redis_client = IF call.redis_client = "open" THEN "closed" ELSE @,
                  !.db = IF call.stage = "storage" /\ call.db = "connected"
                         THEN "disconnected" ELSE @,
                  !.at = "exited"]

pipelineVars ==
    <<feed, ocr_impl, queues, files, db, pc, cur, res, timer, intake, faults,
      popCount, published, aiCalls, log, loopErrors>>

NextFn ==
    \/ (\E e \in ImageEndpoints, n \in FileNames, c \in Contents, s \in 0..MaxUploads :
           UploadCall(e, n, c, s)) /\ UNCHANGED pipelineVars
    \/ LoadImageCall /\ UNCHANGED pipelineVars
    \/ IntakePushCall /\ UNCHANGED pipelineVars
    \/ IntakeLoadsCall /\ UNCHANGED pipelineVars
    \/ JsonDumpsCall /\ UNCHANGED pipelineVars
    \/ JsonLoadsCall /\ UNCHANGED pipelineVars
    \/ \E q \in QualityMetrics : SelectStrategiesCall(q) /\ UNCHANGED pipelineVars
    \/ CalculateScoreCall /\ UNCHANGED pipelineVars
    \/ ScoreOneCall /\ UNCHANGED pipelineVars
    \/ SelectBestCall /\ UNCHANGED pipelineVars
    \/ PostProcessCall /\ UNCHANGED pipelineVars
    \/ AssessQualityCall /\ UNCHANGED pipelineVars
    \/ SelectAfterAssessCall /\ UNCHANGED pipelineVars
    \/ ApplyStrategiesCall /\ UNCHANGED pipelineVars
    \/ AnalyzeCall /\ UNCHANGED pipelineVars
    \/ StartFromUrl /\ UNCHANGED pipelineVars
    \/ StartDbConnect /\ UNCHANGED pipelineVars
    \/ StartPing /\ UNCHANGED pipelineVars
    \/ StartSelect1 /\ UNCHANGED pipelineVars
    \/ StartLoopEscapes /\ UNCHANGED pipelineVars
    \/ StartExcept /\ UNCHANGED pipelineVars
    \/ StartFinally /\ UNCHANGED pipelineVars

SpecFn == InitFn /\ [][NextFn]_vars

\* The desktop client on its own, with the retry_attempts of its config file.
\* The worker is a thread of its own and the hotkey handler runs on the
\* listener's thread: each takes its next step when it can.
InitClient ==
    /\ InitPipeline
    /\ feed = "storage"
    /\ \E r \in 0..MaxRetryAttempts :
          call = [fn |-> "client", retry_attempts |-> r,
                  upload_queue |-> <<>>, retry_queue |-> <<>>,
                  worker |-> [pc |-> "check_upload", item |-> NoItem],
                  hotkey |-> [pc |-> "returned", item |-> NoItem],
                  captured |-> 0, attempts |-> [id \in 1..MaxItems |-> 0],
                  finished |-> {}, moved |-> <<>>]

NextClient ==
    \/ Capture /\ UNCHANGED pipelineVars
    \/ upload_worker /\ UNCHANGED pipelineVars
    \/ RetryHotkey /\ UNCHANGED pipelineVars
    \/ retry_failed_uploads /\ UNCHANGED pipelineVars

SpecClient ==
    /\ InitClient
    /\ [][NextClient]_vars
    /\ WF_vars(upload_worker /\ UNCHANGED pipelineVars)
    /\ WF_vars(retry_failed_uploads /\ UNCHANGED pipelineVars)

\* ---------------------------------------------------------------- properties
Producers == OCRStage \cup TextStage
StorageQueue == queues["storage_queue"]

\* The element with identity mid is on some queue / is held by some instance.
OnSomeQueue(mid) ==
    \E q \in QueueNames : \E k \in 1..Len(queues[q]) : queues[q][k].mid = mid
Held(mid) == \E i \in Instances : cur[i].mid = mid

\* Instance i returns from its store_* call in this step, no fault striking.
Stored(i) == pc[i] = "Publishing" /\ pc'[i] = "Idle" /\ faults' = faults

\* This step pushes exactly one element onto storage_queue, derived from job m.
PushedOneFor(m) ==
    /\ Len(queues'["storage_queue"]) = Len(StorageQueue) + 1
    /\ Tail(queues'["storage_queue"]) = StorageQueue
    /\ Head(queues'["storage_queue"]).src = m.src

\* The image behind the file_path of an OCR job.
ImageOf(body) == files[Get(body, "file_path")[1]]

\* C1: whenever the OCR stage or the Text-Analysis stage completes its work on a
\* popped job without an error (image loaded, text non-blank, AI analysis
\* returned), the step that ends the work pushes exactly one message for that
\* job onto storage_queue; and no step of a Storage instance adds an element to
\* any queue.
C1_ExactlyOneMessage ==
    [][ /\ \A i \in Producers :
              (Stored(i) /\ "error" \notin DOMAIN res[i].ai) => PushedOneFor(cur[i])
        /\ \A i \in StorageStage :
              (pc'[i] # pc[i] \/ cur'[i] # cur[i])
                  => \A q \in QueueNames : Len(queues'[q]) <= Len(queues[q]) ]_vars

\* C2: for an OCR job whose image loads but yields zero candidates, the OCR
\* stage completes by publishing one storage_queue message with empty ocr_text
\* and ocr_confidence 0: the job is not dropped.
C2_EmptyResultPublished ==
    [][ \A i \in OCRStage :
          (/\ Stored(i)
           /\ ~LoadImageRaises(ImageOf(cur[i].w.body))
           /\ ocr_results_of(ImageOf(cur[i].w.body)) = <<>>)
              => /\ PushedOneFor(cur[i])
                 /\ Head(queues'["storage_queue"]).w.body.ocr_text = Some(<<>>)
                 /\ Head(queues'["storage_queue"]).w.body.ocr_confidence = Some(0) ]_vars

\* C3: in the OCR stage, when every AI capability fails for a job with non-empty
\* text, the stage still publishes a storage_queue message for the job, whose
\* ai_response carries the error string.
C3_AIFailurePublished ==
    [][ \A i \in OCRStage :
          (/\ Stored(i)
           /\ ~IsBlank(res[i].ocr.text)
           /\ "error" \in DOMAIN res[i].ai)
              => /\ PushedOneFor(cur[i])
                 /\ Head(queues'["storage_queue"]).w.body.ai_response
                        = Some(res[i].ai.error) ]_vars

\* The path names no file, a file that is gone, or one that does not decode.
BadPath(p) == IsNone(p) \/ p[1] \notin DOMAIN files \/ files[p[1]] = Corrupt

\* C4: an ocr_queue job whose file_path is missing, does not exist or cannot be
\* decoded as an image produces no storage_queue message and no AI call, and the
\* OCR stage stays in its loop.
C4_BadFileDropped ==
    /\ \A k \in 1..Len(StorageQueue) :
          StorageQueue[k].origin = "ocr_queue"
              => ~BadPath(StorageQueue[k].w.body.image_path)
    /\ \A i \in OCRStage :
          (cur[i] # NoJob /\ BadPath(Get(cur[i].w.body, "file_path")))
              => \A c \in aiCalls : c.mid # cur[i].mid
    /\ \A i \in OCRStage : pc[i] \in {"Idle", "Processing", "Publishing", "BackoffSleep"}

\* The job's direct_text is empty or holds only whitespace.
BlankTextJob(m) ==
    /\ "direct_text" \in DOMAIN m.w.body => m.w.body.direct_text # None
    /\ LET t == IF "direct_text" \in DOMAIN m.w.body THEN m.w.body.direct_text[1] ELSE <<>>
       IN  \A k \in 1..Len(t) : t[k] = " "

\* C5: a text_analysis_queue job whose direct_text is empty or whitespace-only
\* never reaches publishing, never has a storage_queue message derived from it
\* and never has an AI call made for it; and no stage calls the AI service with
\* blank text.
C5_BlankTextShortCircuits ==
    /\ \A i \in TextStage :
          (cur[i] # NoJob /\ BlankTextJob(cur[i]))
              => /\ pc[i] # "Publishing"
                 /\ Count(published, cur[i].src) = 0
                 /\ \A c \in aiCalls : c.mid # cur[i].mid
    /\ \A k \in 1..Len(StorageQueue) :
          StorageQueue[k].origin = "text_analysis_queue"
              => \E j \in 1..Len(StorageQueue[k].w.body.ocr_text[1]) :
                    StorageQueue[k].w.body.ocr_text[1][j] # " "
    /\ \A c \in aiCalls : \E j \in 1..Len(c.text) : c.text[j] # " "

\* A blank text job was popped and dropped: nothing published, no AI call.
C5_Witness ==
    /\ \E e \in log : e[2] = "no_text" /\ Count(popCount, e[1]) = 1 /\ ~Held(e[1])
    /\ published = <<>>
    /\ aiCalls = {}

\* C6: in each stage the work function runs only on payloads that parsed, and a
\* popped payload that failed to parse is gone: it is on no queue, held by no
\* instance, was popped once, and no storage_queue message, AI call or database
\* row derives from it.
C6_UnparseableDropped ==
    /\ \A i \in Instances :
          pc[i] \in {"Processing", "Publishing"} => Parses(i, cur[i].w)
    /\ \A e \in log :
          e[2] = "json_error"
              => /\ ~OnSomeQueue(e[1])
                 /\ ~Held(e[1])
                 /\ Count(popCount, e[1]) = 1
                 /\ Count(published, e[1][1]) = 0
                 /\ \A c \in aiCalls : c.mid # e[1]
                 /\ \A k \in 1..Len(db) : db[k].src # e[1][1]

\* The Storage stage popped a payload that is not JSON, dropped it and went on to
\* poll; the queue holds nothing more.
C6_Witness ==
    /\ \E e \in log : e[2] = "json_error" /\ e[1][2] = "storage_queue"
    /\ \A i \in StorageStage : pc[i] = "Idle"
    /\ StorageQueue = <<>>

C8_TimeoutReturnsToIdle ==
    [][ \A i \in Instances :
          (pc[i] = "Idle" /\ queues[InputQueue(i)] = <<>> /\ faults' = faults)
              => /\ pc'[i] = "Idle"
                 /\ timer'[i] = 0
                 /\ cur'[i] = NoJob
                 /\ res'[i] = NoRes ]_vars

\* Every instance polls an empty queue after the pipeline has stored a record.
C8_Witness ==
    /\ \A i \in Instances : pc[i] = "Idle" /\ timer[i] = 0
    /\ \A q \in QueueNames : queues[q] = <<>>
    /\ db # <<>>

\* C9: no queue element is popped more than once, a popped element is on no
\* queue, and every input job yields at most one storage_queue message and at
\* most one stored record.
C9_LostNeverRedelivered ==
    /\ \A mid \in DOMAIN popCount : popCount[mid] <= 1 /\ ~OnSomeQueue(mid)
    /\ \A src \in DOMAIN published : published[src] <= 1
    /\ \A a, b \in 1..Len(db) : db[a].src = db[b].src => a = b

\* An ocr_queue job was popped and then lost to a crash of its instance: no
\* error line was logged, nothing was published, and the stage polls again.
C9_Witness ==
    /\ faults = 1
    /\ log = {}
    /\ \E mid \in DOMAIN popCount :
          /\ mid[2] = "ocr_queue"
          /\ ~Held(mid)
          /\ Count(published, mid[1]) = 0
    /\ \A i \in OCRStage : pc[i] = "Idle"

\* The copies of input job src the Storage stage sees: elements of
\* storage_queue, jobs its instances hold, stored records.
Copies(src) ==
    Cardinality({k \in 1..Len(StorageQueue) : StorageQueue[k].src = src})
    + Cardinality({i \in StorageStage : cur[i] # NoJob /\ cur[i].src = src})
    + Cardinality({k \in 1..Len(db) : db[k].src = src})

\* C10: under every interleaving no two instances hold the same queue element,
\* an element an instance holds is on no queue, and of every input job at most
\* one copy is on storage_queue, in the hands of a Storage instance or stored.
C10_AtMostOneConsumer ==
    /\ \A i, j \in Instances :
          (i # j /\ cur[i] # NoJob) => cur[i].mid # cur[j].mid
    /\ \A i \in Instances : cur[i] # NoJob => ~OnSomeQueue(cur[i].mid)
    /\ \A src \in 1..intake : Copies(src) <= 1

\* The two OCR instances polled ocr_queue together and each works on a job of
\* its own.
C10_Witness ==
    /\ \A i \in OCRStage : pc[i] = "Processing"
    /\ \A i, j \in OCRStage : i # j => cur[i].mid # cur[j].mid

\* C11: every message the OCR stage or the Text-Analysis stage pushes onto
\* storage_queue has a non-null user_id: the user_id of the input job when that
\* is present, and 1 when the input job carries none.
C11_UserIdDefaulted ==
    [][ \A i \in Producers :
          (Stored(i) /\ queues'["storage_queue"] # StorageQueue)
              => LET given == Get(cur[i].w.body, "user_id")
                     pushed == Head(queues'["storage_queue"]).w.body.user_id
                 IN  /\ ~IsNone(pushed)
                     /\ pushed = IF IsNone(given) THEN Some(1) ELSE given ]_vars

\* storage_queue holds a message for a job that came with a user_id (0) and one
\* for a job that came without.
C11_Witness ==
    /\ Len(StorageQueue) = 2
    /\ \A k \in 1..2 : StorageQueue[k].origin = "text_analysis_queue"
    /\ StorageQueue[1].w.body.user_id = Some(0)
    /\ StorageQueue[2].w.body.user_id = Some(1)

\* The nine columns of table responses that store_response fills.
InsertColumns ==
    {"user_id", "folder_id", "ocr_text", "ai_response", "image_path",
     "ocr_confidence", "ocr_language", "ai_model", "ai_tokens"}

\* C12: a Storage instance that ends its work on a parsed message without a
\* fault has made exactly one insert when the message carries a user_id, the
\* row holding the message's value for each of the nine columns the message
\* sets (folder_id may be null), and has made no insert when the message
\* carries no user_id.
C12_OneInsertPerUserJob ==
    [][ \A i \in StorageStage :
          (pc[i] = "Processing" /\ pc'[i] = "Idle" /\ faults' = faults)
              => LET b == cur[i].w.body
                 IN  IF IsNone(Get(b, "user_id"))
                     THEN db' = db
                     ELSE /\ Len(db') = Len(db) + 1
                          /\ SubSeq(db', 1, Len(db)) = db
                          /\ \A c \in InsertColumns \cap DOMAIN b :
                                db'[Len(db')][c] = b[c] ]_vars

\* C13: a storage job whose database write failed is lost and the loop goes on:
\* the job is on no queue, is held by no instance, was popped once and has no
\* row; and a Storage instance is never stopped, and sleeps only after an
\* error of its queue poll, never after a failed write.
C13_StoreFailureLosesJob ==
    /\ \A e \in log :
          e[2] = "db_error"
              => /\ ~OnSomeQueue(e[1])
                 /\ ~Held(e[1])
                 /\ Count(popCount, e[1]) = 1
                 /\ \A k \in 1..Len(db) : db[k].mid # e[1]
    /\ \A i \in StorageStage :
          /\ pc[i] \in {"Idle", "Processing", "BackoffSleep"}
          /\ pc[i] = "BackoffSleep" => <<NoJob.mid, "loop_error">> \in log

\* The write of one job failed and the Storage stage has stored the next one.
C13_Witness ==
    /\ \E e \in log :
          /\ e[2] = "db_error"
          /\ \E k \in 1..Len(db) : db[k].src > e[1][1]
    /\ \A i \in StorageStage : pc[i] = "Idle"

\* C14: a storage job that was encoded with json.dumps and decoded with
\* json.loads in the Storage stage is the original job in all fifteen fields,
\* for every combination of field values, folder_id null included.
C14_WireRoundTrip ==
    (call.fn = "json" /\ "ret" \in DOMAIN call)
        => /\ Cardinality(DOMAIN call.arg) = 15
           /\ DOMAIN call.ret = DOMAIN call.arg
           /\ \A k \in DOMAIN call.arg : call.ret[k] = call.arg[k]

\* A job with folder_id null whose text holds a double quote and a backslash
\* was encoded and decoded.
C14_Witness ==
    /\ call.fn = "json"
    /\ "ret" \in DOMAIN call
    /\ call.arg.folder_id = None
    /\ call.arg.ocr_text = Some(<<"\"", "\\">>)
    /\ call.wire.ocr_text.chars # call.arg.ocr_text[1]

\* The calls of the strategy selection made so far, and the names a call returned.
SelectCalls == IF call.fn = "select" THEN call.calls ELSE <<>>
Names(strategies) == {strategies[k].name : k \in 1..Len(strategies)}

\* C15: for all quality metrics the strategy selection returns a collection
\* without duplicates that holds document_text and screenshot_mixed and has
\* between 2 and 5 strategies, and two calls with the same metrics return the
\* same collection, whatever was selected in between.
C15_SelectionWellFormed ==
    /\ \A k \in 1..Len(SelectCalls) :
          LET ret == SelectCalls[k].ret
          IN  /\ Cardinality(Names(ret)) = Len(ret)
              /\ {"document_text", "screenshot_mixed"} \subseteq Names(ret)
              /\ Len(ret) >= 2
              /\ Len(ret) <= 5
    /\ \A j, k \in 1..Len(SelectCalls) :
          SelectCalls[j].arg = SelectCalls[k].arg
              => SelectCalls[j].ret = SelectCalls[k].ret

\* The selection returned all five strategies, and did so again for the same
\* metrics on the next call.
C15_Witness ==
    /\ Len(SelectCalls) = 2
    /\ SelectCalls[1].arg = SelectCalls[2].arg
    /\ Len(SelectCalls[1].ret) = 5

\* The catalog entry a name stands for.
CatalogEntry(name) ==
    CHOOSE e \in {ocr_strategies[k] : k \in 1..Len(ocr_strategies)} : e.name = name

\* C16: the selection holds dense_text exactly when text_density > 60,
\* web_content exactly when overall_score < 60 and single_line exactly when
\* sharpness < 50, the values 60, 60 and 50 themselves not selecting, and every
\* entry it returns is the catalog entry of its name.
C16_SelectionThresholds ==
    \A k \in 1..Len(SelectCalls) :
       LET q == SelectCalls[k].arg
           ret == SelectCalls[k].ret
       IN  /\ "dense_text" \in Names(ret) <=> q.text_density > 60
           /\ "web_content" \in Names(ret) <=> q.overall_score < 60
           /\ "single_line" \in Names(ret) <=> q.sharpness < 50
           /\ \A j \in 1..Len(ret) : ret[j] = CatalogEntry(ret[j].name)
           /\ CatalogEntry("dense_text").oem = 1
           /\ CatalogEntry("web_content").psm = 3
           /\ CatalogEntry("single_line").psm = 8

\* The selection was called with every metric on its boundary value and with
\* every metric just past it.
C16_Witness ==
    /\ Len(SelectCalls) = 2
    /\ SelectCalls[1].arg = [text_density |-> 60, overall_score |-> 60, sharpness |-> 50]
    /\ Len(SelectCalls[1].ret) = 2
    /\ SelectCalls[2].arg = [text_density |-> 61, overall_score |-> 59, sharpness |-> 49]
    /\ Names(SelectCalls[2].ret) =
           {"document_text", "screenshot_mixed", "dense_text", "web_content", "single_line"}

\* C17: of two results that agree on text length, word count, strategy and
\* language, the one with the higher confidence never has the lower score.
C17_ScoreMonotonic ==
    (call.fn = "score" /\ "ret" \in DOMAIN call)
        => LET a == call.arg[1]
               b == call.arg[2]
           IN  (/\ a.text_length = b.text_length
                /\ a.word_count = b.word_count
                /\ a.strategy = b.strategy
                /\ a.language = b.language
                /\ a.confidence > b.confidence)
                   => call.ret[1] >= call.ret[2]

\* Two results that differ in confidence only were scored.
C17_Witness ==
    /\ call.fn = "score"
    /\ "ret" \in DOMAIN call
    /\ call.arg[1].confidence > call.arg[2].confidence
    /\ [call.arg[1] EXCEPT !.confidence = 0] = [call.arg[2] EXCEPT !.confidence = 0]
    /\ call.ret[1] > call.ret[2]

\* select_best_result has returned for the list `results`.
SelectedFrom(results) ==
    call.fn = "select_best" /\ "ret" \in DOMAIN call /\ call.arg = results

\* C18: for a non-empty list, select_best_result returns a result whose score
\* is maximal in the list, and of the results with the maximal score the one
\* that comes first in the list.
C18_BestIsFirstMaximal ==
    (call.fn = "select_best" /\ "ret" \in DOMAIN call /\ call.arg # <<>>)
        => \E k \in 1..Len(call.arg) :
              /\ call.ret = call.arg[k]
              /\ \A j \in 1..Len(call.arg) :
                    calculate_result_score(call.arg[j])
                        <= calculate_result_score(call.arg[k])
              /\ \A j \in 1..(k - 1) :
                    calculate_result_score(call.arg[j])
                        < calculate_result_score(call.arg[k])

\* Two different results share the maximal score and the first was returned.
C18_Witness ==
    /\ call.fn = "select_best"
    /\ "ret" \in DOMAIN call
    /\ Len(call.arg) = 2
    /\ call.arg[1] # call.arg[2]
    /\ calculate_result_score(call.arg[1]) = calculate_result_score(call.arg[2])
    /\ call.ret = call.arg[1]

\* C19: given zero results, select_best_result returns the sentinel: text "",
\* confidence 0 and strategy "none".
C19_EmptyGivesSentinel ==
    SelectedFrom(<<>>)
        => /\ call.ret.text = EmptyText
           /\ call.ret.confidence = 0
           /\ call.ret.strategy = "none"

\* select_best_result has returned for the empty list.
C19_Witness == SelectedFrom(<<>>) /\ call.ret = Sentinel

\* C20: post_process_text is idempotent: applied to a text it has returned, it
\* returns that text again, for all texts, those mixing whitespace, control
\* characters and the characters of the replace() table included.
C20_PostProcessIdempotent ==
    (call.fn = "post_process" /\ Len(call.rets) = 2)
        => call.rets[2] = call.rets[1]

\* The five metrics assess_image_quality derives from the image.
FiveMetrics == {"sharpness", "contrast", "brightness", "noise_level", "text_density"}

\* C21: for every image, the all-black, the all-white and the single-pixel
\* image included, each of sharpness, contrast, brightness, noise_level and
\* text_density that assess_image_quality returns lies in [0, 100], and
\* overall_score is the arithmetic mean of the five.
C21_MetricsInRange ==
    (call.fn = "assess" /\ "ret" \in DOMAIN call)
        => /\ \A k \in FiveMetrics :
                 call.ret[k] >= 0 /\ call.ret[k] <= 100 * Scale
           /\ 5 * call.ret.overall_score =
                 call.ret.sharpness + call.ret.contrast + call.ret.brightness
                 + call.ret.noise_level + call.ret.text_density

\* C30: when a step of the quality assessment raises, assess_image_quality
\* returns the neutral metrics, all six fields 50, and the job goes on to the
\* strategy selection, which selects for these metrics.
C30_AssessFailureNeutral ==
    (call.fn = "assess" /\ call.arg.raises)
        => /\ "ret" \in DOMAIN call =>
                 /\ DOMAIN call.ret = FiveMetrics \cup {"overall_score"}
                 /\ \A k \in DOMAIN call.ret : call.ret[k] = 50 * Scale
           /\ "strategies" \in DOMAIN call =>
                 Names(call.strategies)
                     = {"document_text", "screenshot_mixed", "web_content"}

\* The assessment of an image raised and the strategies were selected.
C30_Witness ==
    /\ call.fn = "assess"
    /\ call.arg.raises
    /\ "strategies" \in DOMAIN call
    /\ call.ret = NeutralMetrics

\* The pairs tried by a call of apply_multiple_strategies, and whether a pair
\* gave text: its strategy was prepared, its OCR calls returned, and the text
\* is not empty once trimmed.
AppliedPairs ==
    Pairs(select_strategies_by_quality(ocr_strategies, call.quality_metrics), Languages)
GaveText(p) ==
    /\ ~call.image.engine[p.strategy.name].fails
    /\ ~call.image.engine[p.strategy.name].langs[p.language].raises
    /\ Strip(call.image.engine[p.strategy.name].langs[p.language].text) # <<>>
CandidatesOf(p) ==
    {k \in 1..Len(call.ret) :
        call.ret[k].strategy = p.strategy.name /\ call.ret[k].language = p.language}

\* C29: apply_multiple_strategies returns exactly one candidate for each
\* (selected strategy, language) pair whose OCR calls returned without raising
\* and whose trimmed text is not empty, and none for any other pair; a raising
\* or empty pair does not stop later pairs, so there is a candidate whenever
\* some pair gives text, and there are at most strategies x languages of them.
C29_OneCandidatePerYieldingPair ==
    (call.fn = "apply" /\ "ret" \in DOMAIN call) =>
        /\ \A n \in 1..Len(AppliedPairs) :
              Cardinality(CandidatesOf(AppliedPairs[n])) =
                  IF GaveText(AppliedPairs[n]) THEN 1 ELSE 0
        /\ \A k \in 1..Len(call.ret) :
              /\ \E n \in 1..Len(AppliedPairs) : k \in CandidatesOf(AppliedPairs[n])
              /\ call.ret[k].text # <<>>
        /\ (\E n \in 1..Len(AppliedPairs) : GaveText(AppliedPairs[n])) => call.ret # <<>>
        /\ Len(call.ret) <= Len(AppliedPairs)
        /\ Len(AppliedPairs) =
              Len(select_strategies_by_quality(ocr_strategies, call.quality_metrics))
                  * Len(Languages)

\* A call where a pair raised, a strategy failed as a whole and a blank pair
\* occurred, all before a pair that gave text and has its candidate.
C29_Witness ==
    /\ call.fn = "apply"
    /\ "ret" \in DOMAIN call
    /\ call.image.engine["document_text"].fails
    /\ \E m, n \in 1..Len(AppliedPairs) :
          /\ m < n
          /\ ~call.image.engine[AppliedPairs[m].strategy.name].fails
          /\ call.image.engine[AppliedPairs[m].strategy.name].langs[AppliedPairs[m].language].raises
          /\ GaveText(AppliedPairs[n])
          /\ Cardinality(CandidatesOf(AppliedPairs[n])) = 1
    /\ \E n \in 1..Len(AppliedPairs) :
          /\ ~call.image.engine[AppliedPairs[n].strategy.name].fails
          /\ ~call.image.engine[AppliedPairs[n].strategy.name].langs[AppliedPairs[n].language].raises
          /\ ~GaveText(AppliedPairs[n])

\* The strategies the selection policy chose for the image of a published
\* message (its image_path names the file the job pointed at).
StrategiesAttempted(body) ==
    select_strategies_by_quality(
        ocr_strategies, ThresholdUnits(quality_metrics_of(files[body.image_path[1]])))

\* C22: every storage_queue message published by the OCR stage carries as
\* strategies_tried the number of strategies attempted for the job, that is
\* the size of the strategy set chosen by the selection policy.
C22_StrategiesTriedIsSelectionSize ==
    \A k \in 1..Len(StorageQueue) :
        (/\ StorageQueue[k].origin = "ocr_queue"
         /\ "strategies_tried" \in DOMAIN StorageQueue[k].w.body)
            => StorageQueue[k].w.body.strategies_tried =
                   Some(Len(StrategiesAttempted(StorageQueue[k].w.body)))

\* C23: for every text job with non-blank direct_text, whether the AI call
\* returns or raises, the Text-Analysis stage goes on to publish, and the
\* publishing step pushes exactly one storage_queue message carrying the
\* direct_text unchanged as ocr_text, ocr_confidence 100 and strategies_tried
\* 1; when the AI call raised the message has the error text as ai_response,
\* ai_model 'error' and ai_tokens 0.  No other step of the stage pushes.
C23_TextJobPublishedOnce ==
    [][ \A i \in TextStage :
          /\ (/\ pc[i] = "Processing"
              /\ TextAccepted(cur[i].w.body)
              /\ pc'[i] # "Processing"
              /\ faults' = faults)
                 => /\ pc'[i] = "Publishing"
                    /\ cur'[i] = cur[i]
                    /\ res'[i].text = DirectText(cur[i].w.body)[1]
          /\ Stored(i)
                 => /\ TextAccepted(cur[i].w.body)
                    /\ PushedOneFor(cur[i])
                    /\ Head(queues'["storage_queue"]).w.body.ocr_text
                           = DirectText(cur[i].w.body)
                    /\ Head(queues'["storage_queue"]).w.body.ocr_confidence = Some(100)
                    /\ Head(queues'["storage_queue"]).w.body.strategies_tried = Some(1)
                    /\ res[i].ai.model = "error"
                           => /\ Head(queues'["storage_queue"]).w.body.ai_response
                                     = Some("Error occurred during AI analysis")
                              /\ Head(queues'["storage_queue"]).w.body.ai_model
                                     = Some("error")
                              /\ Head(queues'["storage_queue"]).w.body.ai_tokens = Some(0)
          /\ (pc[i] # "Publishing" /\ (pc'[i] # pc[i] \/ cur'[i] # cur[i]))
                 => queues'["storage_queue"] = StorageQueue ]_vars

\* The message of a text job whose AI call raised is on storage_queue, with
\* its direct_text (leading blank included) as ocr_text.
C23_Witness ==
    \E k \in 1..Len(StorageQueue) :
        /\ StorageQueue[k].origin = "text_analysis_queue"
        /\ StorageQueue[k].w.body.ai_model = Some("error")
        /\ StorageQueue[k].w.body.ai_tokens = Some(0)
        /\ StorageQueue[k].w.body.ocr_text = Some(<<" ", "a">>)
        /\ StorageQueue[k].w.body.strategies_tried = Some(1)

\* The input queues that one consumer serves.  The producers number their jobs
\* (src) in the order of the pushes.
SingleConsumerQueues ==
    {q \in QueueNames : Cardinality({i \in Instances : InputQueue(i) = q}) = 1}

\* C24: within a queue served by a single consumer, jobs are popped in the
\* order in which they were pushed: the newest element is at the head and the
\* oldest at the tail, and no job that was popped (processed or in the hands
\* of the consumer) was pushed later than a job that still waits on the queue.
C24_FirstInFirstOut ==
    \A q \in SingleConsumerQueues :
        /\ \A j, k \in 1..Len(queues[q]) :
              j < k => queues[q][j].src > queues[q][k].src
        /\ \A k \in 1..Len(queues[q]) :
              /\ \A mid \in DOMAIN popCount :
                    mid[2] = q => mid[1] < queues[q][k].src
              /\ \A i \in Instances :
                    (InputQueue(i) = q /\ cur[i] # NoJob) => cur[i].src < queues[q][k].src

\* The consumer of text_analysis_queue works on the first job while the second
\* job, pushed before that pop or after it, waits on the queue.
C24_Witness ==
    /\ \E i \in TextStage : cur[i] # NoJob /\ cur[i].src = 1 /\ pc[i] = "Publishing"
    /\ Len(queues["text_analysis_queue"]) = 1
    /\ queues["text_analysis_queue"][1].src = 2
    /\ DOMAIN popCount = {<<1, "text_analysis_queue">>}

\* C25: on every exit from a stage's start_processing the Redis client is
\* closed and, for the Storage stage, the database is disconnected, and the
\* failure is raised to the caller.
C25_CleanupOnEveryExit ==
    (call.fn = "start" /\ call.at = "exited")
        => /\ call.redis_client # "open"
           /\ call.db # "connected"
           /\ ~IsNone(call.raised)

\* C26: each stage instance has at most one job in flight.  It pops only at
\* Idle, and whenever it is there or sleeps before polling again it holds no
\* job and no result of a job: the previous job was published, stored or
\* dropped.  While it works it holds exactly the one job it popped, which is
\* on no queue.
C26_OneJobInFlight ==
    \A i \in Instances :
        /\ pc[i] \in {"Idle", "BackoffSleep"} => (cur[i] = NoJob /\ res[i] = NoRes)
        /\ pc[i] \in {"Processing", "Publishing"}
              => /\ cur[i] # NoJob
                 /\ Count(popCount, cur[i].mid) = 1
                 /\ ~OnSomeQueue(cur[i].mid)
        /\ Cardinality({mid \in DOMAIN popCount :
                            mid[2] = InputQueue(i) /\ Held(mid)})
              <= Cardinality({j \in Instances : InputQueue(j) = InputQueue(i)})

\* The Text-Analysis instance works on the first job; the second job waits on
\* the queue and has not been popped.
C26_Witness ==
    /\ \E i \in TextStage : pc[i] = "Processing" /\ cur[i].src = 1
    /\ Len(queues["text_analysis_queue"]) = 1
    /\ Count(popCount, queues["text_analysis_queue"][1].mid) = 0

\* The work of instance i on the job it holds raises in this step: the except
\* branch of the job function (or, in the Storage stage, of the loop's inner
\* try) logs the error.
WorkRaises(i) ==
    /\ pc[i] = "Processing"
    /\ cur[i] # NoJob
    /\ \E line \in {"job_error", "db_error"} :
          <<cur[i].mid, line>> \in log' /\ <<cur[i].mid, line>> \notin log

\* C27: if the stage-specific work raises for a popped job, the stage publishes
\* nothing for the job (no message on its input queue or on the next queue, no
\* database record) and returns to Idle, without a sleep, to poll again.
C27_WorkErrorDropsJob ==
    [][ \A i \in Instances :
          WorkRaises(i)
              => /\ queues' = queues
                 /\ db' = db
                 /\ published' = published
                 /\ pc'[i] = "Idle"
                 /\ timer'[i] = 0
                 /\ cur'[i] = NoJob
                 /\ res'[i] = NoRes ]_vars

\* The work raised for a job of an OCR or Text-Analysis instance; all jobs were
\* pushed, every instance polls again and nothing is queued or stored.
C27_Witness ==
    /\ \E e \in log : e[2] = "job_error"
    /\ \A e \in log : e[2] = "job_error" => (~OnSomeQueue(e[1]) /\ ~Held(e[1]))
    /\ \A i \in Instances : pc[i] = "Idle"
    /\ \A q \in QueueNames : queues[q] = <<>>
    /\ db = <<>>
    /\ intake = MaxJobs

\* The services a call of analyze_with_ai invoked, in order.
Invoked == call.ret.calls

\* C28: in the OCR stage's AI analysis the primary capability (Gemini) is tried
\* first whenever it is configured; the secondary (OpenAI) is invoked only after
\* the primary failed or when the primary is not configured, and never when the
\* primary call succeeded, whose reply is then the result.
C28_PrimaryFirst ==
    (call.fn = "analyze" /\ "ret" \in DOMAIN call)
        => /\ (call.keys.gemini /\ ~IsBlank(call.text))
                  => (Invoked # <<>> /\ Invoked[1] = "gemini")
           /\ \A k \in 1..Len(Invoked) :
                 Invoked[k] = "openai"
                     => /\ call.keys.openai
                        /\ \/ ~call.keys.gemini /\ k = 1
                           \/ /\ call.keys.gemini
                              /\ k = 2
                              /\ Invoked[1] = "gemini"
                              /\ call.gemini = "raise"
           /\ \A j, k \in 1..Len(Invoked) : Invoked[j] = Invoked[k] => j = k
           /\ (call.keys.gemini /\ ~IsBlank(call.text) /\ call.gemini # "raise")
                  => (Invoked = <<"gemini">> /\ call.ret.ai = ReplyDict(call.gemini))

\* Both services are configured, the primary failed and the secondary was
\* invoked after it and answered.
C28_Witness ==
    /\ call.fn = "analyze"
    /\ "ret" \in DOMAIN call
    /\ call.keys = [gemini |-> TRUE, openai |-> TRUE]
    /\ call.gemini = "raise"
    /\ Invoked = <<"gemini", "openai">>
    /\ call.ret.ai = ReplyDict(call.openai)

\* The selected strategies of a call of apply_multiple_strategies whose
\* transform raises, nothing else failing before the language loop.
TransformRaised(p) ==
    /\ call.image.transform[p.strategy.preprocessing_type] = "raises"
    /\ ~call.image.engine[p.strategy.name].fails
AttemptsOf(p) ==
    {k \in 1..Len(call.attempts) :
        /\ call.attempts[k].strategy = p.strategy.name
        /\ call.attempts[k].language = p.language}

\* C31: if the preprocessing transform raises for a strategy, preprocess_image
\* returns the plain grayscale conversion and the strategy still runs its OCR
\* attempt for every language, on that grayscale image; a pair of it that
\* gives text has its candidate.  A transform that returns hands the engine
\* the transformed image.
C31_PreprocessFailureKeepsStrategy ==
    (call.fn = "apply" /\ "ret" \in DOMAIN call) =>
        \A n \in 1..Len(AppliedPairs) :
            /\ TransformRaised(AppliedPairs[n])
                  => /\ Cardinality(AttemptsOf(AppliedPairs[n])) = 1
                     /\ \A k \in AttemptsOf(AppliedPairs[n]) :
                           call.attempts[k].processed = "grayscale"
                     /\ GaveText(AppliedPairs[n])
                           => Cardinality(CandidatesOf(AppliedPairs[n])) = 1
            /\ \A k \in AttemptsOf(AppliedPairs[n]) :
                  call.image.transform[AppliedPairs[n].strategy.preprocessing_type]
                      = "returns"
                      => call.attempts[k].processed
                             = AppliedPairs[n].strategy.preprocessing_type

\* The transform of document_text raised; the strategy was tried on the
\* grayscale image for every language and gave a candidate, and so did the
\* next strategy on its transformed image.
C31_Witness ==
    /\ call.fn = "apply"
    /\ "ret" \in DOMAIN call
    /\ call.image.transform["document"] = "raises"
    /\ call.image.transform["screenshot"] = "returns"
    /\ \A l \in LanguageNames :
          \E k \in 1..Len(call.attempts) :
              /\ call.attempts[k].strategy = "document_text"
              /\ call.attempts[k].language = l
              /\ call.attempts[k].processed = "grayscale"
    /\ \E k \in 1..Len(call.ret) : call.ret[k].strategy = "document_text"
    /\ \E k \in 1..Len(call.ret) : call.ret[k].strategy = "screenshot_mixed"

\* The names of the two lookup tables of the score.
ListedStrategies ==
    {"document_text", "screenshot_mixed", "web_content", "dense_text", "single_line"}
ListedLanguages == {"auto", "multi_european", "english", "german"}

\* C32: the score of a candidate is 0.40*confidence + 0.20*min(textLength/100,
\* 1)*100 + 0.15*min(wordCount/10, 1)*100 + 0.15*strategyBonus + 0.10*
\* languageBonus (here times 100); a bonus is 0 for a name absent from its
\* table, document_text has the largest strategy bonus, 10, and the
\* multi-language entry the largest language bonus, 8.
C32_ScoreFormula ==
    (call.fn = "score_one" /\ "ret" \in DOMAIN call) =>
        /\ call.ret =
              40 * call.arg.confidence
              + 20 * (IF call.arg.text_length >= 100 THEN 100 ELSE call.arg.text_length)
              + 15 * (IF call.arg.word_count >= 10 THEN 100 ELSE 10 * call.arg.word_count)
              + 15 * call.strategy_bonus
              + 10 * call.language_bonus
        /\ call.arg.strategy \notin ListedStrategies => call.strategy_bonus = 0
        /\ call.arg.language \notin ListedLanguages => call.language_bonus = 0
        /\ call.arg.strategy \in ListedStrategies => call.strategy_bonus > 0
        /\ call.arg.language \in ListedLanguages => call.language_bonus > 0
        /\ IF call.arg.strategy = "document_text"
           THEN call.strategy_bonus = 10 ELSE call.strategy_bonus < 10
        /\ IF call.arg.language = "multi_european"
           THEN call.language_bonus = 8 ELSE call.language_bonus < 8

\* A result above both caps, with a strategy and a language of neither table,
\* was scored: 40*55 + 20*100 + 15*100.
C32_Witness ==
    /\ call.fn = "score_one"
    /\ "ret" \in DOMAIN call
    /\ call.arg = [confidence |-> 55, text_length |-> 150, word_count |-> 12,
                   strategy |-> "custom", language |-> "klingon"]
    /\ call.ret = 5700

\* Character d of the output may stand for character c of the input: c itself,
\* the substitute the table lists for c, or the single space a whitespace run
\* collapses to.
StandsFor(d, c) ==
    \/ d = c
    \/ c = "|" /\ d = "I"
    \/ c = "0" /\ d = "O"
    \/ c = "5" /\ d = "S"
    \/ c \in Whitespace /\ d = " "

\* out is obtained from in by removing characters and replacing the surviving
\* ones, in their order, by characters that stand for them.
RECURSIVE ObtainedFrom(_, _)
ObtainedFrom(out, in) ==
    IF out = <<>> THEN TRUE
    ELSE IF Len(in) < Len(out) THEN FALSE
    ELSE \/ StandsFor(Head(out), Head(in)) /\ ObtainedFrom(Tail(out), Tail(in))
         \/ ObtainedFrom(out, Tail(in))

\* C33: post_process_text never lengthens or reorders its input: the output is
\* no longer than the input and is obtained from it only by removing
\* characters, collapsing whitespace runs to a single space and one-for-one
\* substitution of the listed characters, the survivors keeping their order.
C33_PostProcessOnlyShrinks ==
    (call.fn = "post_process" /\ Len(call.rets) >= 1) =>
        /\ Len(call.rets[1]) <= Len(call.arg)
        /\ ObtainedFrom(call.rets[1], call.arg)

\* A text with a line break and a space in a row, a control character and a
\* character of the table was processed: five characters became three.
C33_Witness ==
    /\ call.fn = "post_process"
    /\ Len(call.rets) >= 1
    /\ call.arg = <<"a", "\n", " ", Nul, "5">>
    /\ call.rets[1] = <<"a", " ", "S">>

C35_IntakeRoundTrip ==
    (call.fn = "intake" /\ "raised" \in DOMAIN call)
        => /\ ~call.raised
           /\ call.job = call.job_data

\* C36: under every interleaving of uploads and OCR processing, the content
\* the OCR stage reads for a job is the content uploaded by the request that
\* enqueued the job.
C36_JobReadsItsOwnUpload ==
    call.fn = "upload"
        => \A k \in 1..Len(call.reads) :
              call.reads[k].content = call.requests[call.reads[k].request].content

\* C38: in all three stages the backoff sleep is taken only when the queue pop
\* itself fails: a step in which an instance starts to sleep takes no element
\* off any queue, so neither a malformed payload nor a job whose work fails
\* delays the next poll.
C38_SleepOnlyOnPopFailure ==
    [][ \A i \in Instances :
          (pc[i] # "BackoffSleep" /\ pc'[i] = "BackoffSleep")
              => /\ pc[i] = "Idle"
                 /\ queues' = queues
                 /\ popCount' = popCount ]_vars

\* The message with identity <<s, q>> has been pushed onto queue q: by a
\* producer of the run, or onto storage_queue by the stage that processed
\* upload s.
WasPushed(s, q) ==
    \/ s <= intake /\ \E p \in Pushes(feed) : p[1] = q
    \/ q = "storage_queue" /\ Count(published, s) >= 1

InQueue(q, id) == Cardinality({k \in 1..Len(q) : q[k].id = id})
Holders(id) ==
    InQueue(call.upload_queue, id) + InQueue(call.retry_queue, id)
    + (IF call.worker.item.id = id THEN 1 ELSE 0)
    + (IF call.hotkey.item.id = id THEN 1 ELSE 0)

\* C39: every captured item is uploaded at most retry_attempts + 1 times,
\* whatever the order of failures and however often retry_failed_uploads runs;
\* once it has been uploaded that often and the last upload is over, it is in
\* neither the upload queue nor the retry queue.
C39_AtMostRetryAttemptsPlusOne ==
    call.fn = "client" =>
        \A id \in 1..MaxItems :
            /\ call.attempts[id] <= call.retry_attempts + 1
            /\ (call.attempts[id] = call.retry_attempts + 1 /\ call.worker.item.id # id)
                  => /\ InQueue(call.upload_queue, id) = 0
                     /\ InQueue(call.retry_queue, id) = 0

\* An item has failed retry_attempts + 1 times, the hotkey handler having moved
\* it back to the upload queue on the way, and is gone from both queues.
C39_Witness ==
    /\ call.fn = "client"
    /\ call.retry_attempts = 2
    /\ call.attempts[1] = 3
    /\ 1 \in call.finished
    /\ Len(call.moved) >= 1
    /\ call.moved[1] = 1
    /\ Holders(1) = 0

\* C40: under every interleaving of the upload worker with a call of
\* retry_failed_uploads, the call returns, and every item is held in exactly
\* one place while it is neither uploaded nor given up (no item is lost or
\* duplicated by the move), and in none afterwards.
C40_RetryCallReturns ==
    /\ [](call.fn = "client" =>
            \A id \in 1..MaxItems :
                Holders(id) = IF id <= call.captured /\ id \notin call.finished
                              THEN 1 ELSE 0)
    /\ (call.hotkey.pc # "returned") ~> (call.hotkey.pc = "returned")

====
